---- MODULE Spec2Model ----
(***************************************************************************)
(* Automarks back end: the persistence gateway (save_extracted_data over   *)
(* the Student / Semester / Subject / Result tables) and the batch         *)
(* ingestion coordinator (process_batch_files_async).                      *)
(*                                                                         *)
(* Text values (seat numbers, subject codes, names, cohort tags, status    *)
(* words) are sequences of one-character strings, so that the code's       *)
(* strip / upper / regular-expression steps are computed, not assumed.     *)
(* An Optional[...] value is a sequence of length 0 (None) or 1.           *)
(***************************************************************************)
EXTENDS Naturals, Integers, Sequences, FiniteSets, TLC

(***************************************************************************)
(* Optional values                                                         *)
(***************************************************************************)
NoneV == <<>>

Some(x) == <<x>>

IsNone(o) == o = <<>>

(***************************************************************************)
(* Characters and strings                                                  *)
(***************************************************************************)
UpperChars == <<"A","B","C","D","E","F","G","H","I","J","K","L","M","N","O","P","Q","R","S","T","U","V","W","X","Y","Z">>

LowerChars == <<"a","b","c","d","e","f","g","h","i","j","k","l","m","n","o","p","q","r","s","t","u","v","w","x","y","z">>

DigitChars == <<"0","1","2","3","4","5","6","7","8","9">>

Range(s) == {s[i] : i \in DOMAIN s}

IsUpper(c) == c \in Range(UpperChars)

IsLower(c) == c \in Range(LowerChars)

IsDigit(c) == c \in Range(DigitChars)

IsAlpha(c) == IsUpper(c) \/ IsLower(c)

IsSpace(c) == c = " "

\* str.upper(), one character
UpperChar(c) ==
    IF IsLower(c) THEN UpperChars[CHOOSE i \in DOMAIN LowerChars : LowerChars[i] = c]
    ELSE c

\* str.upper()
Upper(s) == [i \in DOMAIN s |-> UpperChar(s[i])]

RECURSIVE LStrip(_)
\* str.lstrip()
LStrip(s) == IF s # <<>> /\ IsSpace(Head(s)) THEN LStrip(Tail(s)) ELSE s

RECURSIVE RStrip(_)
\* str.rstrip()
RStrip(s) ==
    IF s # <<>> /\ IsSpace(s[Len(s)]) THEN RStrip(SubSeq(s, 1, Len(s) - 1)) ELSE s

\* str.strip()
Strip(s) == RStrip(LStrip(s))

RECURSIVE KeepAlnum(_)
\* re.sub(r"[^A-Z0-9]", "", s)
KeepAlnum(s) ==
    IF s = <<>> THEN <<>>
    ELSE IF IsUpper(Head(s)) \/ IsDigit(Head(s))
         THEN <<Head(s)>> \o KeepAlnum(Tail(s))
         ELSE KeepAlnum(Tail(s))

RECURSIVE CollapseSpaces(_)
\* re.sub(r"\s+", " ", s)
CollapseSpaces(s) ==
    IF s = <<>> THEN <<>>
    ELSE IF IsSpace(Head(s))
         THEN <<" ">> \o CollapseSpaces(LStrip(s))
         ELSE <<Head(s)>> \o CollapseSpaces(Tail(s))

\* s[from:] starts with w
StartsWithAt(s, from, w) ==
    /\ Len(s) >= from - 1 + Len(w)
    /\ SubSeq(s, from, from - 1 + Len(w)) = w

RECURSIVE RunLen(_, _, _)
\* length of the longest run of letters (letters = TRUE) or digits that starts at s[i]
RunLen(s, i, letters) ==
    IF i > Len(s) THEN 0
    ELSE IF (letters /\ IsUpper(s[i])) \/ (~letters /\ IsDigit(s[i]))
         THEN 1 + RunLen(s, i + 1, letters)
         ELSE 0

DigitValue(c) == (CHOOSE i \in DOMAIN DigitChars : DigitChars[i] = c) - 1

RECURSIVE IntOf(_)
\* int(s) of a string of decimal digits
IntOf(s) ==
    IF s = <<>> THEN 0
    ELSE 10 * IntOf(SubSeq(s, 1, Len(s) - 1)) + DigitValue(s[Len(s)])

RECURSIVE StrOf(_)
\* str(n), n >= 0
StrOf(n) ==
    IF n < 10 THEN <<DigitChars[n + 1]>>
    ELSE StrOf(n \div 10) \o <<DigitChars[(n % 10) + 1]>>

(***************************************************************************)
(* Helper functions of main.py                                             *)
(***************************************************************************)
StatusCodes == {<<"P">>, <<"F">>, <<"A">>, <<"W">>, <<"X">>, <<"N","E">>}

long_to_code ==
    [w \in {<<"P","A","S","S">>, <<"F","A","I","L">>, <<"A","B","S","E","N","T">>, <<"W","I","T","H","H","E","L","D">>, <<"N","O","T","_","E","L","I","G","I","B","L","E","_","X">>,
            <<"N","O","T"," ","E","L","I","G","I","B","L","E"," ","X">>, <<"N","O","T","_","E","L","I","G","I","B","L","E","_","N","E">>, <<"N","O","T"," ","E","L","I","G","I","B","L","E"," ","N","E">>} |->
        CASE w = <<"P","A","S","S">> -> <<"P">>
          [] w = <<"F","A","I","L">> -> <<"F">>
          [] w = <<"A","B","S","E","N","T">> -> <<"A">>
          [] w = <<"W","I","T","H","H","E","L","D">> -> <<"W">>
          [] w \in {<<"N","O","T","_","E","L","I","G","I","B","L","E","_","X">>, <<"N","O","T"," ","E","L","I","G","I","B","L","E"," ","X">>} -> <<"X">>
          [] OTHER -> <<"N","E">>]

\* normalize_result_status(value, to_output): Optional[str] -> Optional[str]
normalize_result_status(value, to_output) ==
    IF IsNone(value) THEN NoneV
    ELSE LET val == Upper(Strip(value[1]))
         IN  IF val \in StatusCodes THEN Some(val)
             ELSE IF val \in DOMAIN long_to_code THEN Some(long_to_code[val])
             ELSE IF to_output THEN Some(val) ELSE NoneV

\* _validate_batch(batch): [raised, value]; raised stands for the HTTPException(400)
_validate_batch(batch) ==
    IF IsNone(batch) THEN [raised |-> FALSE, value |-> NoneV]
    ELSE LET normalized == Strip(batch[1])
         IN  IF normalized = <<>> THEN [raised |-> FALSE, value |-> NoneV]
             ELSE IF ~(/\ Len(normalized) = 9
                       /\ normalized[5] = "-"
                       /\ \A i \in {1, 2, 3, 4, 6, 7, 8, 9} : IsDigit(normalized[i]))
                  THEN [raised |-> TRUE, value |-> NoneV]
                  ELSE LET start == IntOf(SubSeq(normalized, 1, 4))
                           end == IntOf(SubSeq(normalized, 6, 9))
                       IN  IF end # start + 4
                           THEN [raised |-> TRUE, value |-> NoneV]
                           ELSE [raised |-> FALSE,
                                 value |-> Some(StrOf(start) \o <<"-">> \o StrOf(end))]

\* _extract_branch_from_usn(usn): ^\d[A-Z]{2,3}\d{2}([A-Z]{2,3})\d{3,}$
_extract_branch_from_usn(usn) ==
    IF IsNone(usn) \/ usn = Some(<<>>) THEN NoneV
    ELSE LET val == Upper(Strip(usn[1]))
             c == RunLen(val, 2, TRUE)        \* college letters
             y == RunLen(val, 2 + c, FALSE)   \* admission year digits
             b == RunLen(val, 4 + c, TRUE)    \* branch letters
             r == RunLen(val, 4 + c + b, FALSE)
         IN  IF /\ val # <<>>
                /\ IsDigit(val[1])
                /\ c \in {2, 3}
                /\ y = 2
                /\ b \in {2, 3}
                /\ r >= 3
                /\ 4 + c + b + r = Len(val) + 1
             THEN Some(SubSeq(val, 4 + c, 3 + c + b))
             ELSE NoneV

(***************************************************************************)
(* The store: the tables of models.py.  A row is a record; each table is a *)
(* set of rows.  Ids are assigned on insert as the largest id in use + 1.  *)
(***************************************************************************)
EmptyStore == [students |-> {}, semesters |-> {}, subjects |-> {}, results |-> {}]

NextId(rows) ==
    IF rows = {} THEN 1
    ELSE (CHOOSE m \in {r.id : r \in rows} : \A r \in rows : r.id <= m) + 1

\* Result.__table_args__: uq_result_student_sem_subject
UniqueResults(results) ==
    \A r1, r2 \in results :
        (/\ r1.student_id = r2.student_id
         /\ r1.semester_id = r2.semester_id
         /\ r1.subject_id = r2.subject_id) => r1 = r2

InRangeOrNull(v, hi) == IsNone(v) \/ (v[1] >= 0 /\ v[1] <= hi)

\* Result.__table_args__: ck_internal_marks_range, ck_external_marks_range,
\* ck_total_marks_range
MarksInRange(r) ==
    /\ InRangeOrNull(r.internal_marks, 50)
    /\ InRangeOrNull(r.external_marks, 100)
    /\ InRangeOrNull(r.total_marks, 200)

\* a results table that checks the mark ranges only
ResultConstraints_RangesOnly(results) == \A r \in results : MarksInRange(r)

\* what the database enforces on the results table when rows are written
ResultConstraints(results) ==
    /\ UniqueResults(results)
    /\ \A r \in results : MarksInRange(r)

\* Student.usn and Subject.subject_code are unique; uq_semester_term (a NULL
\* month or year never conflicts, as SQL compares NULLs)
KeyConstraints(w) ==
    /\ \A s1, s2 \in w.students : s1.usn = s2.usn => s1 = s2
    /\ \A s1, s2 \in w.subjects : s1.subject_code = s2.subject_code => s1 = s2
    /\ \A s1, s2 \in w.semesters :
          (/\ s1.semester_number = s2.semester_number
           /\ ~IsNone(s1.exam_month) /\ s1.exam_month = s2.exam_month
           /\ ~IsNone(s1.exam_year) /\ s1.exam_year = s2.exam_year) => s1 = s2

(***************************************************************************)
(* A session (SessionLocal: autocommit=False, autoflush=False) inside one  *)
(* transaction: the rows the database shows to its queries (committed rows *)
(* plus everything flushed so far, with the changes made to loaded rows),  *)
(* the new Result objects added but not yet flushed, and whether a flush   *)
(* has raised.                                                             *)
(***************************************************************************)
Begin(store) ==
    [students |-> store.students, semesters |-> store.semesters,
     subjects |-> store.subjects, results |-> store.results,
     pending |-> <<>>, ok |-> TRUE, student_id |-> 0, semester_id |-> 0,
     subject_id |-> 0]

\* the one element of a one-element set
Only(S) == CHOOSE x \in S : TRUE

RECURSIVE InsertAll(_, _)
InsertAll(results, pending) ==
    IF pending = <<>> THEN results
    ELSE InsertAll(results \cup {[Head(pending) EXCEPT !.id = NextId(results)]},
                   Tail(pending))

\* db.flush(): the pending Result rows are inserted; the database checks its
\* constraints on what is written and the flush raises when one is violated
Flush(w) ==
    Only({IF ResultConstraints(written) /\ KeyConstraints(w)
          THEN [w EXCEPT !.results = written, !.pending = <<>>]
          ELSE [w EXCEPT !.pending = <<>>, !.ok = FALSE] :
              written \in {InsertAll(w.results, w.pending)}})

DaysInMonth(y, m) ==
    IF m \in {4, 6, 9, 11} THEN 30
    ELSE IF m = 2
         THEN (IF (y % 4 = 0 /\ y % 100 # 0) \/ y % 400 = 0 THEN 29 ELSE 28)
         ELSE 31

\* datetime.strptime(s, '%Y-%m-%d').date(): a date text is the triple
\* <<year, month, day>> of its three number fields; parsing raises on a
\* month or day that does not exist
ParseDate(s) ==
    IF s[2] \in 1..12 /\ s[3] \in 1..DaysInMonth(s[1], s[2]) /\ s[1] >= 1
    THEN Some(s) ELSE NoneV

TitleWords ==
    {<<"I","N","T","R","O","D","U","C","T","I","O","N">>, <<"P","R","I","N","C","I","P","L","E","S">>, <<"F","U","N","D","A","M","E","N","T","A","L","S">>, <<"E","N","G","I","N","E","E","R","I","N","G">>,
     <<"M","A","T","H","E","M","A","T","I","C","S">>, <<"P","H","Y","S","I","C","S">>, <<"C","H","E","M","I","S","T","R","Y">>, <<"P","R","O","G","R","A","M","M","I","N","G">>, <<"C","O","M","P","U","T","E","R">>,
     <<"D","I","G","I","T","A","L">>, <<"D","A","T","A">>, <<"D","E","S","I","G","N">>, <<"A","N","A","L","Y","S","I","S">>, <<"N","E","T","W","O","R","K","S">>, <<"S","Y","S","T","E","M","S">>,
     <<"E","L","E","C","T","R","O","N","I","C","S">>}

\* the subject code save_extracted_data looks up: strip, upper, keep [A-Z0-9]
NormalCode(subject_code) == KeepAlnum(Upper(Strip(subject_code)))

\* the subject name save_extracted_data stores for a new subject
NormalName(subject_name, raw_code) ==
    LET n1 == CollapseSpaces(Strip(subject_name))
        n2 == IF /\ Len(n1) >= 10
                 /\ IsAlpha(n1[1])
                 /\ \E w \in TitleWords : StartsWithAt(Upper(n1), 2, w)
              THEN LStrip(Tail(n1))
              ELSE n1
    IN  IF n2 = <<>> THEN raw_code ELSE n2

\* a backfill that overwrites a populated value
Backfill_Overwrites(stored, value) == IF ~IsNone(value) THEN value ELSE stored

\* lines 1502-1506: "if value and not getattr(student, field, None)": the value
\* of the call is written only where the stored one is missing or empty
Backfill(stored, value) ==
    IF ~IsNone(value) /\ (IsNone(stored) \/ stored = Some(<<>>)) THEN value ELSE stored

\* save_extracted_data, student part: get or create the student
UpsertStudent(w, data, normalized_batch, extracted_branch) ==
    IF \E s \in w.students : s.usn = data.usn
    THEN LET student == CHOOSE s \in w.students : s.usn = data.usn
             name == IF data.student_name # <<>> /\ student.student_name # data.student_name
                     THEN data.student_name ELSE student.student_name
             batch == Backfill(student.batch, normalized_batch)
             branch == Backfill(student.branch, extracted_branch)
             updated == [student EXCEPT !.student_name = name, !.batch = batch,
                                        !.branch = branch]
         IN  [w EXCEPT !.students = (w.students \ {student}) \cup {updated},
                       !.student_id = student.id]
    ELSE Flush([w EXCEPT !.student_id = NextId(w.students),
                         !.students = w.students \cup
                    {[id |-> NextId(w.students), usn |-> data.usn,
                      student_name |-> data.student_name,
                      batch |-> normalized_batch, branch |-> extracted_branch]}])

\* a term comparison in which a missing month or year matches nothing
SameTerm_NullNeverEqual(s, data) ==
    /\ s.semester_number = data.semester
    /\ ~IsNone(data.exam_month) /\ s.exam_month = data.exam_month
    /\ ~IsNone(data.exam_year) /\ s.exam_year = data.exam_year

\* save_extracted_data, lines 1510-1514: the filter of the semester query
SameTerm(s, data) ==
    /\ s.semester_number = data.semester
    /\ s.exam_month = data.exam_month
    /\ s.exam_year = data.exam_year

\* save_extracted_data, semester part: get or create the semester
UpsertSemester(w, data) ==
    IF \E s \in w.semesters : SameTerm(s, data)
    THEN [w EXCEPT !.semester_id = (CHOOSE s \in w.semesters : SameTerm(s, data)).id]
    ELSE Flush([w EXCEPT !.semester_id = NextId(w.semesters),
                         !.semesters = w.semesters \cup
                    {[id |-> NextId(w.semesters), semester_number |-> data.semester,
                      exam_month |-> data.exam_month, exam_year |-> data.exam_year]}])

\* a test that finds no trailing letter
TrailingLetter_Never(raw_code) == FALSE

\* line 1553: len(raw_code) > 1 and raw_code[-1].isalpha()
TrailingLetter(raw_code) == Len(raw_code) > 1 /\ IsAlpha(raw_code[Len(raw_code)])

\* save_extracted_data, lines 1526-1566: the subject of one subject_data is looked
\* up by its normalized code, then without a trailing letter, or is created
ResolveSubject(w, subject_data) ==
    LET code0 == NormalCode(subject_data.subject_code)
        exact == {s \in w.subjects : s.subject_code = code0}
        alt_code == SubSeq(code0, 1, Len(code0) - 1)
        alt == IF exact = {} /\ TrailingLetter(code0)
               THEN {s \in w.subjects : s.subject_code = alt_code}
               ELSE {}
    IN  IF exact # {} THEN [w EXCEPT !.subject_id = (CHOOSE s \in exact : TRUE).id]
        ELSE IF alt # {} THEN [w EXCEPT !.subject_id = (CHOOSE s \in alt : TRUE).id]
        ELSE Flush([w EXCEPT !.subject_id = NextId(w.subjects),
                             !.subjects = w.subjects \cup
                                 {[id |-> NextId(w.subjects), subject_code |-> code0,
                                   subject_name |-> NormalName(subject_data.subject_name, code0)]}])

\* a result lookup that leaves the term out
ResultKeyMatch_NoTerm(r, w) ==
    /\ r.student_id = w.student_id
    /\ r.subject_id = w.subject_id

\* save_extracted_data, lines 1569-1573: the filter of the result query
ResultKeyMatch(r, w) ==
    /\ r.student_id = w.student_id
    /\ r.semester_id = w.semester_id
    /\ r.subject_id = w.subject_id

\* save_extracted_data, lines 1568-1597: the result row of (student, semester,
\* subject) is looked up or created, and its fields are overwritten
StoreResult(w, subject_data, upload_batch_id) ==
    LET hit == {r \in w.results : ResultKeyMatch(r, w)}
        old == IF hit # {}
               THEN CHOOSE r \in hit : TRUE
               ELSE [id |-> 0, student_id |-> w.student_id,
                     semester_id |-> w.semester_id, subject_id |-> w.subject_id,
                     internal_marks |-> NoneV, external_marks |-> NoneV,
                     total_marks |-> NoneV, upload_batch_id |-> NoneV,
                     result_status |-> NoneV, announced_date |-> NoneV]
        parsed == IF IsNone(subject_data.announced_date) THEN NoneV
                  ELSE ParseDate(subject_data.announced_date[1])
        new == [old EXCEPT
                  !.internal_marks = subject_data.internal_marks,
                  !.external_marks = subject_data.external_marks,
                  !.total_marks = subject_data.total_marks,
                  !.upload_batch_id =
                      IF ~IsNone(upload_batch_id) /\ upload_batch_id # Some(<<>>)
                      THEN upload_batch_id ELSE old.upload_batch_id,
                  !.result_status = normalize_result_status(subject_data.result_status, FALSE),
                  !.announced_date = IF IsNone(parsed) THEN old.announced_date ELSE parsed]
    IN  IF ~w.ok THEN w
        ELSE IF hit # {}
             THEN [w EXCEPT !.results = (w.results \ {old}) \cup {new}]
             ELSE [w EXCEPT !.pending = Append(w.pending, new)]

\* save_extracted_data, one pass of "for subject_data in data.subjects"
UpsertSubjectResult(w, subject_data, upload_batch_id) ==
    IF NormalCode(subject_data.subject_code) = <<>> THEN w
    ELSE Only({StoreResult(w1, subject_data, upload_batch_id) :
                   w1 \in {ResolveSubject(w, subject_data)}})

RECURSIVE UpsertSubjects(_, _, _, _)
\* save_extracted_data: for subject_data in data.subjects, from the k-th on
UpsertSubjects(w, subjects, k, upload_batch_id) ==
    IF k > Len(subjects) \/ ~w.ok THEN w
    ELSE UpsertSubjects(UpsertSubjectResult(w, subjects[k], upload_batch_id),
                        subjects, k + 1, upload_batch_id)

\* db.commit(): flush, then make the transaction's rows the stored rows
Commit(w) == Flush(w)

StoreOf(w) ==
    [students |-> w.students, semesters |-> w.semesters,
     subjects |-> w.subjects, results |-> w.results]

\* save_extracted_data, lines 1484-1599, in a transaction that starts from store
SaveBody(store, data, normalized_batch, upload_batch_id) ==
    Only({Only({Only({IF w3.ok THEN Commit(w3) ELSE w3 :
                          w3 \in {UpsertSubjects(w2, data.subjects, 1, upload_batch_id)}}) :
                    w2 \in {IF w1.ok THEN UpsertSemester(w1, data) ELSE w1}}) :
              w1 \in {UpsertStudent(Begin(store), data, normalized_batch,
                                    _extract_branch_from_usn(Some(data.usn)))}})

\* save_extracted_data(db, data, batch, upload_batch_id): the store afterwards and
\* whether the call raised (then the transaction was rolled back)
save_extracted_data(store, data, batch, upload_batch_id) ==
    Only({IF vb.raised
          THEN [store |-> store, raised |-> TRUE, error |-> "400: Invalid batch"]
          ELSE Only({IF w.ok THEN [store |-> StoreOf(w), raised |-> FALSE, error |-> ""]
                     ELSE [store |-> store, raised |-> TRUE, error |-> "IntegrityError"] :
                         w \in {SaveBody(store, data, vb.value, upload_batch_id)}}) :
              vb \in {_validate_batch(batch)}})

(***************************************************************************)
(* Bounds of the model                                                     *)
(***************************************************************************)
\* save_extracted_data calls in one behaviour of SpecSave
MaxSaves == 2

\* documents of one batch in one behaviour of SpecOrder
MaxDocs == 2

\* subject entries of one document
MaxEntries == 3

(***************************************************************************)
(* Documents (ExtractedStudentResult) the calls are drawn from             *)
(***************************************************************************)
Entry(code, name, im, em, tm, st, dt) ==
    [subject_code |-> code, subject_name |-> name, internal_marks |-> im,
     external_marks |-> em, total_marks |-> tm, result_status |-> st,
     announced_date |-> dt]

Doc(usn, name, sem, month, year, subjects) ==
    [usn |-> usn, student_name |-> name, semester |-> sem, exam_month |-> month,
     exam_year |-> year, subjects |-> subjects]

Usn1 == <<"1","S","V","2","2","A","D","0","0","5">>

Usn2 == <<"1","S","V","2","2","C","S","0","1","0">>

June == Some(<<"J","u","n","e">>)

Date1 == Some(<<2024, 6, 10>>)

\* a date text with the shape \d{4}-\d{2}-\d{2} that names no day
BadDate == Some(<<2024, 13, 45>>)

E_Cs(im, st, dt) == Entry(<<"B","C","S","1","0","1">>, <<"D","A","T","A">>, Some(im), Some(45), Some(im + 45), st, dt)

E_CsA == Entry(<<"B","C","S","1","0","1","A">>, <<"D","A","T","A"," ","L","A","B">>, Some(20), NoneV, Some(20), Some(<<"P">>), Date1)

E_Lower == Entry(<<"b","c","s","-","1","0","1">>, <<"D","D","A","T","A"," ","M","I","N","I","N","G">>, NoneV, Some(30), Some(30), Some(<<" ","p","a","s","s"," ">>), Date1)

E_Ph == Entry(<<"B","P","H","Y","S","1","0","2">>, <<"P","H","Y","S","I","C","S"," ","L","A","B">>, Some(30), Some(30), Some(60), Some(<<"F">>), Date1)

\* the same subject as a scan reads it when the first letter of the name is
\* glued to the code
E_PhGlued == Entry(<<"B","P","H","Y","S","1","0","2","P">>, <<"H","Y","S","I","C","S"," ","L","A","B">>, Some(31), Some(30), Some(61), Some(<<"P">>), Date1)

Subjects ==
    { <<E_Cs(40, Some(<<"P">>), Date1)>>,
      <<E_Cs(35, Some(<<"F">>), BadDate)>>,
      <<E_Cs(40, Some(<<"P">>), Date1), E_Cs(41, Some(<<"P">>), Date1)>>,
      <<E_Cs(40, Some(<<"P">>), Date1), E_Ph, E_Cs(41, Some(<<"A","B","S","E","N","T">>), NoneV)>>,
      <<E_CsA>>,
      <<E_Cs(40, Some(<<"P">>), Date1), E_CsA>>,
      <<E_Lower, E_Ph>>,
      <<E_Cs(60, Some(<<"P">>), Date1)>> }

Docs ==
    {Doc(Usn1, <<"A","N","U">>, 3, June, Some(2024), s) : s \in Subjects}
    \cup {Doc(Usn1, <<"A","N","U"," ","K">>, 3, June, Some(2024), <<E_Cs(40, Some(<<"P">>), Date1)>>),
          Doc(Usn1, <<"A","N","U">>, 4, NoneV, NoneV, <<E_Cs(38, Some(<<"P">>), Date1)>>),
          Doc(Usn2, <<"R","A","V","I">>, 3, June, Some(2024), <<E_Cs(22, Some(<<"X","Y","Z">>), Date1), E_Ph>>),
          \* a document whose name field is blank
          Doc(Usn1, <<>>, 3, June, Some(2024), <<E_PhGlued>>)}

GoodTag == Some(<<"2","0","2","2","-","2","0","2","6">>)

BadTag == Some(<<"2","0","2","2","-","2","0","2","5">>)

OtherTag == Some(<<"2","0","2","1","-","2","0","2","5">>)

Tags == {GoodTag, BadTag, OtherTag, NoneV}

BatchId == Some(<<"b","1">>)

BatchIds == {BatchId, Some(<<"b","2">>)}

SingleId == Some(<<"S","I","N","G","L","E">>)

\* documents of earlier single uploads (SpecOrder)
SeedDocs ==
    {Doc(Usn1, <<"A","N","U">>, 3, June, Some(2024), <<E_Cs(12, Some(<<"F">>), Date1)>>),
     Doc(Usn2, <<"R","A","V","I">>, 3, June, Some(2024), <<E_CsA>>)}

(***************************************************************************)
(* The batch coordinator: upload_batch_pdfs and process_batch_files_async  *)
(***************************************************************************)
\* "Bulk commit every 10 PDFs": len(pending_commits) >= 10
BulkCommitSize == 10

\* files of one upload
MaxFiles == 11

\* broadcasts of one batch run during which a client joins or leaves
MaxRaces == 1

\* what the external reader finds in a file: the header fields the parser's
\* patterns match (None: no match) and the subject entries the scan emits
Text(readable, usn, name, sem, month, year, subjects) ==
    [readable |-> readable, usn |-> usn, student_name |-> name, semester |-> sem,
     exam_month |-> month, exam_year |-> year, subjects |-> subjects]

TextA == Text(TRUE, Some(Usn1), Some(<<"A","N","U">>), Some(3), June, Some(2024),
              <<E_Cs(40, Some(<<"P">>), Date1)>>)

TextB == Text(TRUE, Some(Usn2), NoneV, Some(3), June, Some(2024), <<E_Ph>>)

TextDup == Text(TRUE, Some(Usn1), Some(<<"A","N","U">>), Some(3), June, Some(2024),
                <<E_Cs(40, Some(<<"P">>), Date1), E_Cs(41, Some(<<"P">>), Date1)>>)

\* internal marks above the 0..50 the results table accepts
TextOver == Text(TRUE, Some(Usn2), Some(<<"R","A","V","I">>), Some(3), June, Some(2024),
                 <<E_Cs(60, Some(<<"P">>), Date1)>>)

TextNoId == Text(TRUE, NoneV, Some(<<"A","N","U">>), Some(3), June, Some(2024),
                 <<E_Cs(40, Some(<<"P">>), Date1)>>)

TextNoTerm == Text(TRUE, Some(Usn1), Some(<<"A","N","U">>), NoneV, June, Some(2024),
                   <<E_Cs(40, Some(<<"P">>), Date1)>>)

TextNoSubjects == Text(TRUE, Some(Usn1), Some(<<"A","N","U">>), Some(3), June, Some(2024), <<>>)

Unreadable == Text(FALSE, NoneV, NoneV, NoneV, NoneV, NoneV, <<>>)

Texts == {TextA, TextB, TextDup, TextOver, TextNoId, TextNoTerm, TextNoSubjects, Unreadable}

\* a parser that returns a result without subjects
extract_pdf_KeepsEmpty(text) ==
    IF ~text.readable \/ IsNone(text.usn) \/ IsNone(text.semester) THEN NoneV
    ELSE Some(Doc(Upper(Strip(text.usn[1])),
                  IF IsNone(text.student_name) THEN <<"U","n","k","n","o","w","n">>
                  ELSE Strip(text.student_name[1]),
                  text.semester[1], text.exam_month, text.exam_year, text.subjects))

\* VTUResultExtractor.extract_from_pdf / _parse_markdown_content: None or a result
extract_pdf(text) ==
    IF ~text.readable THEN NoneV
    ELSE IF IsNone(text.usn) THEN NoneV
    ELSE IF IsNone(text.semester) THEN NoneV
    ELSE IF text.subjects = <<>> THEN NoneV
    ELSE Some(Doc(Upper(Strip(text.usn[1])),
                  IF IsNone(text.student_name) THEN <<"U","n","k","n","o","w","n">>
                  ELSE Strip(text.student_name[1]),
                  text.semester[1], text.exam_month, text.exam_year, text.subjects))

\* process_single_pdf(file_path, filename, index): extract_pdf catches every
\* Exception itself, so the "error" tuple is never built
process_single_pdf(file, index) ==
    LET extracted_data == extract_pdf(file.text)
    IN  IF ~IsNone(extracted_data)
        THEN [status |-> "success", filename |-> file.filename,
              result |-> extracted_data[1], index |-> index]
        ELSE [status |-> "failed", filename |-> file.filename,
              result |-> "Failed to extract data", index |-> index]

\* file.filename.endswith('.pdf'): a file name is <<stem, number, extension>>
IsPdf(filename) == filename[Len(filename)] = ".pdf"

RECURSIVE SavedFiles(_)
\* upload_batch_pdfs: the uploaded files that are written to disk and processed
SavedFiles(uploaded) ==
    IF uploaded = <<>> THEN <<>>
    ELSE IF IsPdf(Head(uploaded).filename)
         THEN <<Head(uploaded)>> \o SavedFiles(Tail(uploaded))
         ELSE SavedFiles(Tail(uploaded))

\* int((processed + failed) / len(files) * 100); for the counts and
\* totals of the uploads modelled here the double-precision product truncates
\* to the exact quotient
Percentage(count, total) == (count * 100) \div total

\* a flush that reports success and saves nothing
SaveAll_Nothing(st, docs, tag, batch_id) ==
    [store |-> st, raised |-> FALSE, error |-> "", done |-> 0]

RECURSIVE SaveAll(_, _, _, _)
\* for data in pending_commits: save_extracted_data(db, data, batch, batch_id):
\* the loop stops at the first call that raises; done counts the calls that
\* returned (each committed its own transaction)
SaveAll(st, docs, tag, batch_id) ==
    IF docs = <<>> THEN [store |-> st, raised |-> FALSE, error |-> "", done |-> 0]
    ELSE Only({IF r.raised
               THEN [store |-> st, raised |-> TRUE, error |-> r.error, done |-> 0]
               ELSE Only({[rest EXCEPT !.done = rest.done + 1] :
                              rest \in {SaveAll(r.store, Tail(docs), tag, batch_id)}}) :
                   r \in {save_extracted_data(st, Head(docs), tag, batch_id)}})

\* no batch has submitted its extraction tasks
NoTasks == [keep |-> FALSE, files |-> <<>>, raw |-> {}, at |-> <<>>, out |-> <<>>,
            unlink_errors |-> {}]

\* no document is being scanned
NoScan == [lines |-> <<>>, i |-> 0, mode |-> "none", subjects |-> <<>>,
           subject_code |-> <<>>, parts |-> <<>>]

\* no future submitted to the executor
NoPool == [hung |-> {}, running |-> {}, finished |-> {}]

\* no UploadLog row created
NoLogs == [open |-> {}, deleted |-> {}]

VARIABLES
    store,            \* the database tables
    base,             \* SpecOrder: the tables before the first document of the batch
    saved,            \* SpecSave, SpecOrder: the save_extracted_data calls made so far
    pc,               \* where process_batch_files_async stands
    files,            \* saved_files: the uploaded .pdf files, in upload order
    batch,            \* the cohort tag of the upload
    upload_log,       \* the UploadLog row of the batch as committed (None: no row)
    handled,          \* indexes of the futures as_completed has yielded
    processed,        \* local counter of process_batch_files_async
    failed,           \* local counter of process_batch_files_async
    failed_files,     \* local list of {filename, error}
    pending_commits,  \* local buffer of extracted results
    events,           \* the messages handed to manager.broadcast, in order
    notifications,    \* the Notification rows created
    races,            \* broadcasts so far during which the connection set changed
    error,            \* the exception the try block of the batch run ended with
    flushes,          \* the flushes of pending_commits made so far, in order
    tasks,            \* SpecTask: the extraction tasks of a batch and their raw files
    scan,             \* SpecScan: _extract_subjects at work on the lines of a document
    pool,             \* SpecHung: the futures on the workers of the thread pool
    logs              \* SpecDelete: the batches whose UploadLog row exists or was deleted

vars == <<store, base, saved, pc, files, batch, upload_log, handled, processed, failed,
          failed_files, pending_commits, events, notifications, races, error, flushes,
          tasks, scan, pool, logs>>

coordVars == <<pc, files, batch, upload_log, handled, processed, failed,
               failed_files, pending_commits, events, notifications, races, error, flushes>>

aloneVars == <<tasks, scan, pool, logs>>

Init ==
    /\ store = EmptyStore
    /\ base = EmptyStore
    /\ saved = <<>>
    /\ pc = "idle"
    /\ files = <<>>
    /\ batch = NoneV
    /\ upload_log = NoneV
    /\ handled = {}
    /\ processed = 0
    /\ failed = 0
    /\ failed_files = <<>>
    /\ pending_commits = <<>>
    /\ events = <<>>
    /\ notifications = <<>>
    /\ races = 0
    /\ error = NoneV
    /\ flushes = <<>>
    /\ tasks = NoTasks
    /\ scan = NoScan
    /\ pool = NoPool
    /\ logs = NoLogs

File(i, text) == [filename |-> <<"f", i, ".pdf">>, text |-> text]

\* an uploaded file is a .pdf with some text or another kind of file
UploadKinds == ({".pdf"} \X Texts) \cup {<<".txt", TextA>>}

FewKinds == ({".pdf"} \X {TextA, TextB, TextDup, TextNoTerm}) \cup {<<".txt", TextA>>}

Pick(i, k) == [filename |-> <<"f", i, k[1]>>, text |-> k[2]]

\* the uploads tried: every list of up to two files of every kind, every list
\* of three files of a few kinds, a list of extractable files that takes two
\* bulk commits and a remainder, longer
\* lists of TextA files with one file of another kind among them, and a list
\* of one bulk commit of extractable files, one of which the store rejects,
\* and a file that is not extracted
Uploads ==
    {<<>>}
    \cup UNION {{[i \in 1..n |-> Pick(i, ks[i])] : ks \in [1..n -> UploadKinds]} : n \in 1..2}
    \cup {[i \in 1..3 |-> Pick(i, ks[i])] : ks \in [1..3 -> FewKinds]}
    \cup {[i \in 1..n |-> IF i = 2 THEN File(i, k) ELSE File(i, TextA)] :
              n \in 4..MaxFiles, k \in {TextA, TextDup, TextOver, TextNoTerm}}
    \cup {[i \in 1..(2 * BulkCommitSize + 3) |-> File(i, TextA)]}
    \cup {[i \in 1..(BulkCommitSize + 1) |-> IF i = 2 THEN File(i, TextOver)
                                 ELSE IF i = 3 THEN File(i, TextNoTerm)
                                 ELSE File(i, TextA)]}

\* upload_batch_pdfs(files, batch): the UploadLog row is created and committed,
\* the .pdf files are saved, the background task is created
Accepted(uploaded, tag) ==
    /\ pc = "idle"
    /\ files' = SavedFiles(uploaded)
    /\ batch' = tag
    /\ upload_log' = Some([batch_id |-> BatchId[1], total_files |-> Len(uploaded),
                           processed_files |-> 0, failed_files |-> 0,
                           current_file |-> NoneV, current_file_index |-> 0,
                           status |-> "PENDING", error_log |-> NoneV,
                           completed_timestamp |-> FALSE])
    /\ pc' = "start"
    /\ UNCHANGED <<flushes, store, base, saved, handled, processed, failed, failed_files,
                   pending_commits, events, notifications, races, error>>

upload_batch_pdfs ==
    /\ \E uploaded \in Uploads, tag \in {GoodTag, BadTag} : Accepted(uploaded, tag)
    /\ UNCHANGED aloneVars

\* ConnectionManager.broadcast(message): the message is sent to the connected
\* clients; the loop runs over the set active_connections and awaits each send,
\* so a client that connects or disconnects meanwhile makes the iteration raise
\* RuntimeError.  Broadcast gives the choices: raced or not.
Broadcast == IF races < MaxRaces THEN {FALSE, TRUE} ELSE {FALSE}

RaceError == "RuntimeError: Set changed size during iteration"

\* process_batch_files_async, lines 446-464: status PROCESSING, first event
StartProcessing ==
    /\ pc = "start"
    /\ upload_log' = Some([upload_log[1] EXCEPT !.status = "PROCESSING"])
    /\ events' = Append(events, [batch_id |-> BatchId[1], status |-> "processing",
                                 processed |-> 0, failed |-> 0,
                                 total |-> Len(files), percentage |-> 0])
    /\ \E raced \in Broadcast :
          /\ races' = IF raced THEN races + 1 ELSE races
          /\ pc' = IF raced THEN "error" ELSE "loop"
          /\ error' = IF raced THEN Some(RaceError) ELSE error
    /\ UNCHANGED <<aloneVars, flushes, store, base, saved, files, batch, handled, processed, failed,
                   failed_files, pending_commits, notifications>>

\* a threshold that is never reached
FlushDue_Never(buffer) == FALSE

\* line 515: if len(pending_commits) >= 10
FlushDue(buffer) == Len(buffer) >= BulkCommitSize

\* what one flush of the buffer did: how many records it held, how many of them
\* save_extracted_data committed, whether a call raised
Flushed(size, r) == [size |-> size, done |-> r.done, raised |-> r.raised]

\* the try block of one pass of "for future in as_completed(futures)" up to the
\* broadcast, for the future of file i: what it leaves behind and whether it raised
TryOutcome(i) ==
    LET out == process_single_pdf(files[i], i)
        log1 == [upload_log[1] EXCEPT !.current_file = Some(out.filename),
                                      !.current_file_index = out.index]
        buffer == IF out.status = "success" THEN Append(pending_commits, out.result)
                  ELSE pending_commits
        flush == out.status = "success" /\ FlushDue(buffer)
    IN  IF out.status = "success"
        THEN Only({[store |-> r.store,
                    pending_commits |-> IF flush /\ ~r.raised THEN <<>> ELSE buffer,
                    processed |-> processed + 1,
                    failed |-> failed,
                    failed_files |-> failed_files,
                    \* the rollback in save_extracted_data drops the uncommitted
                    \* changes to the UploadLog row
                    log |-> IF r.raised
                            THEN (IF r.done > 0 THEN log1 ELSE upload_log[1])
                            ELSE [log1 EXCEPT !.processed_files = processed + 1],
                    flushed |-> flush, size |-> Len(buffer), done |-> r.done,
                    raised |-> r.raised, error |-> r.error, out |-> out] :
                       r \in {IF flush THEN SaveAll(store, buffer, batch, BatchId)
                              ELSE [store |-> store, raised |-> FALSE, error |-> "",
                                    done |-> 0]}})
        ELSE [store |-> store,
              pending_commits |-> pending_commits,
              processed |-> processed,
              failed |-> failed + 1,
              failed_files |-> Append(failed_files,
                                      [filename |-> out.filename, error |-> out.result]),
              log |-> [log1 EXCEPT !.failed_files = failed + 1],
              flushed |-> FALSE, size |-> 0, done |-> 0,
              raised |-> FALSE, error |-> "", out |-> out]

\* as_completed yields the futures in completion order, which is any order;
\* files with the same content are interchangeable and the first of them stands
\* for each
Yields(i) ==
    /\ i \in DOMAIN files
    /\ i \notin handled
    /\ \A j \in DOMAIN files : (j \notin handled /\ files[j].text = files[i].text) => i <= j

ProgressEvent(t) ==
    [batch_id |-> BatchId[1], current_file |-> t.out.filename,
     current_file_index |-> t.out.index, processed |-> t.processed,
     failed |-> t.failed, total |-> Len(files),
     percentage |-> Percentage(t.processed + t.failed, Len(files)),
     status |-> "processing", failed_files |-> t.failed_files]

\* process_batch_files_async, lines 498-556: one pass of the loop over the
\* completed futures
Handle(i) ==
    \E t \in {TryOutcome(i)} :
        /\ handled' = handled \cup {i}
        /\ store' = t.store
        /\ pending_commits' = t.pending_commits
        /\ processed' = t.processed
        /\ upload_log' = Some(t.log)
        /\ flushes' = IF t.flushed THEN Append(flushes, Flushed(t.size, t)) ELSE flushes
        /\ IF t.raised
           THEN \* except Exception as e (line 550)
                /\ failed' = t.failed + 1
                /\ failed_files' = Append(t.failed_files,
                                          [filename |-> files[i].filename, error |-> t.error])
                /\ UNCHANGED <<events, races>>
           ELSE /\ events' = Append(events, ProgressEvent(t))
                /\ \E raced \in Broadcast :
                      /\ races' = IF raced THEN races + 1 ELSE races
                      /\ failed' = IF raced THEN t.failed + 1 ELSE t.failed
                      /\ failed_files' =
                            IF raced
                            THEN Append(t.failed_files,
                                        [filename |-> files[i].filename, error |-> RaceError])
                            ELSE t.failed_files
        /\ UNCHANGED <<base, saved, pc, files, batch, notifications, error>>

\* every future completes and as_completed yields it
HandleOutcome ==
    /\ pc = "loop"
    /\ \E i \in DOMAIN files : Yields(i) /\ Handle(i)
    /\ UNCHANGED aloneVars

\* a final update that leaves the status as it was during the run
FinalStatus_StaysProcessing(failed_count) == "PROCESSING"

\* a final update that reports every batch as completed
FinalStatus_AlwaysCompleted(failed_count) == "COMPLETED"

\* line 568: UploadStatus.COMPLETED.value if failed == 0 else UploadStatus.FAILED.value
FinalStatus(failed_count) == IF failed_count = 0 THEN "COMPLETED" ELSE "FAILED"

\* process_batch_files_async, lines 558-571: the remainder of the buffer is saved
\* and the final update of the UploadLog row is committed
Finish ==
    /\ pc = "loop"
    /\ handled = DOMAIN files
    /\ \E r \in {SaveAll(store, pending_commits, batch, BatchId)} :
           /\ store' = r.store
           /\ flushes' = IF pending_commits # <<>>
                         THEN Append(flushes, Flushed(Len(pending_commits), r))
                         ELSE flushes
           /\ IF r.raised
              THEN /\ pc' = "error"
                   /\ error' = Some(r.error)
                   /\ UNCHANGED upload_log
              ELSE /\ pc' = "final"
                   /\ upload_log' =
                         Some([upload_log[1] EXCEPT
                                 !.processed_files = processed,
                                 !.failed_files = failed,
                                 !.status = FinalStatus(failed),
                                 !.completed_timestamp = TRUE,
                                 !.current_file = NoneV])
                   /\ UNCHANGED error
    /\ UNCHANGED <<aloneVars, base, saved, files, batch, handled, processed, failed, failed_files,
                   pending_commits, events, notifications, races>>

\* process_batch_files_async, lines 573-582: the final broadcast
FinalBroadcast ==
    /\ pc = "final"
    /\ events' = Append(events, [batch_id |-> BatchId[1], processed |-> processed,
                                 failed |-> failed, total |-> Len(files),
                                 percentage |-> 100,
                                 status |-> IF failed = 0 THEN "completed" ELSE "failed",
                                 failed_files |-> failed_files])
    /\ \E raced \in Broadcast :
          /\ races' = IF raced THEN races + 1 ELSE races
          /\ pc' = IF raced THEN "error" ELSE "summary"
          /\ error' = IF raced THEN Some(RaceError) ELSE error
    /\ UNCHANGED <<aloneVars, flushes, store, base, saved, files, batch, upload_log, handled, processed, failed,
                   failed_files, pending_commits, notifications>>

\* process_batch_files_async, lines 584-606 and 624-625: the summary notification,
\* whose own failures are swallowed; then the session is closed
SummaryNotification ==
    /\ pc = "summary"
    /\ notifications' = Append(notifications,
                               [processed |-> processed, failed |-> failed,
                                total |-> Len(files),
                                level |-> IF failed = 0 THEN "success" ELSE "error"])
    /\ pc' = "closed"
    /\ UNCHANGED <<aloneVars, flushes, store, base, saved, files, batch, upload_log, handled, processed, failed,
                   failed_files, pending_commits, events, races, error>>

\* the terminal event of a handler whose message carries no exception text
ErrorEvent_NoText(e) == [batch_id |-> BatchId[1], status |-> "error"]

\* process_batch_files_async, lines 618-622: the terminal error event
ErrorEvent(e) == [batch_id |-> BatchId[1], status |-> "error", error |-> e]

\* process_batch_files_async, lines 608-625: except Exception as e; the job is
\* marked and committed before the broadcast, whose own failure leaves the
\* task with the session closed
HandleError ==
    /\ pc = "error"
    /\ upload_log' = Some([upload_log[1] EXCEPT !.status = "FAILED", !.error_log = error])
    /\ events' = Append(events, ErrorEvent(error[1]))
    /\ \E raced \in Broadcast :
          races' = IF raced THEN races + 1 ELSE races
    /\ pc' = "closed"
    /\ UNCHANGED <<aloneVars, flushes, store, base, saved, files, batch, handled, processed, failed,
                   failed_files, pending_commits, notifications, error>>

Next ==
    \/ upload_batch_pdfs
    \/ StartProcessing
    \/ HandleOutcome
    \/ Finish
    \/ FinalBroadcast
    \/ SummaryNotification
    \/ HandleError

Spec == Init /\ [][Next]_vars

\* the loop over as_completed(futures) has a future left to yield
FuturesLeft == pc = "loop" /\ handled # DOMAIN files

\* the loop over as_completed(futures) has ended
LoopEnded == pc = "loop" /\ handled = DOMAIN files

\* the uploads followed to their end: the lists of at most two files, and the
\* list of extractable files that passes the flush threshold by one (its
\* saves raise under the malformed tag)
FairUploads ==
    {uploaded \in Uploads :
        \/ Len(uploaded) <= 2
        \/ uploaded = [i \in 1..(BulkCommitSize + 1) |-> File(i, TextA)]}

UploadFair ==
    /\ \E uploaded \in FairUploads, tag \in {GoodTag, BadTag} : Accepted(uploaded, tag)
    /\ UNCHANGED aloneVars

NextFair ==
    \/ UploadFair
    \/ StartProcessing
    \/ HandleOutcome
    \/ Finish
    \/ FinalBroadcast
    \/ SummaryNotification
    \/ HandleError

\* The coordinator is one asyncio task started by upload_batch_pdfs
\* (asyncio.create_task, line 426): the event loop resumes it whenever the
\* awaited broadcast or commit returns, and as_completed yields a future once
\* its extraction task has terminated.  Each of its steps is therefore taken
\* if it stays enabled; the upload itself is a request and is not forced.
\* For HandleOutcome and Finish the weak fairness condition is written out,
\* <>[]ENABLED <<A>>_vars => []<><<A>>_vars, with the enabling condition of
\* the action in the place of ENABLED: HandleOutcome can step exactly when a
\* future is left, Finish exactly when the loop has ended.
SpecFair ==
    /\ Init /\ [][NextFair]_vars
    /\ WF_vars(StartProcessing)
    /\ (<>[]FuturesLeft => []<><<HandleOutcome>>_vars)
    /\ (<>[]LoopEnded => []<><<Finish>>_vars)
    /\ WF_vars(FinalBroadcast)
    /\ WF_vars(SummaryNotification)
    /\ WF_vars(HandleError)

(***************************************************************************)
(* The gateway alone: save_extracted_data called by single uploads and by  *)
(* the flushes of batches, in any interleaving                             *)
(***************************************************************************)
Call(data, tag, batch_id, r) ==
    [data |-> data, batch |-> tag, upload_batch_id |-> batch_id, raised |-> r.raised]

\* the cohort tags tried with a document
TagsFor(data) ==
    IF data.student_name = <<"A","N","U"," ","K">> THEN {GoodTag, BadTag, NoneV}
    ELSE IF data.student_name = <<>> THEN {OtherTag}
    ELSE {GoodTag}

\* upload_single_pdf, line 311: save_extracted_data(db, data, batch, "SINGLE")
SingleSave ==
    /\ Len(saved) < MaxSaves
    /\ \E data \in Docs, tag \in Tags :
          /\ tag \in TagsFor(data)
          /\ \E r \in {save_extracted_data(store, data, tag, SingleId)} :
                /\ store' = r.store
                /\ saved' = Append(saved, Call(data, tag, SingleId, r))
    /\ UNCHANGED <<aloneVars, base, coordVars>>

\* process_batch_files_async, lines 517 and 561: one call of a flush of batch b
BatchSave ==
    /\ Len(saved) < MaxSaves
    /\ \E data \in Docs, tag \in Tags, b \in BatchIds :
          /\ tag \in TagsFor(data)
          /\ \E r \in {save_extracted_data(store, data, tag, b)} :
                /\ store' = r.store
                /\ saved' = Append(saved, Call(data, tag, b, r))
    /\ UNCHANGED <<aloneVars, base, coordVars>>

NextSave == SingleSave \/ BatchSave

SpecSave == Init /\ [][NextSave]_vars

(***************************************************************************)
(* One batch saving its documents one after the other into a store that    *)
(* earlier uploads may have filled                                         *)
(***************************************************************************)
\* an earlier single upload, before the batch starts
SeedSave ==
    /\ saved = <<>>
    /\ base = EmptyStore
    /\ \E data \in SeedDocs :
          \E r \in {save_extracted_data(store, data, NoneV, SingleId)} :
              /\ ~r.raised
              /\ store' = r.store
              /\ base' = r.store
    /\ UNCHANGED <<aloneVars, saved, coordVars>>

\* process_batch_files_async, lines 517 and 561: the next document of the batch
OrderSave ==
    /\ Len(saved) < MaxDocs
    /\ \E data \in Docs :
          \E r \in {save_extracted_data(store, data, GoodTag, BatchId)} :
              /\ store' = r.store
              /\ saved' = Append(saved, Call(data, GoodTag, BatchId, r))
    /\ UNCHANGED <<aloneVars, base, coordVars>>

NextOrder == SeedSave \/ OrderSave

SpecOrder == Init /\ [][NextOrder]_vars

(***************************************************************************)
(* What the store holds, read by natural keys: every row without its id,   *)
(* and every result row with the seat number, the term and the subject     *)
(* code its foreign keys point to                                          *)
(***************************************************************************)
StudentOf(st, id) == CHOOSE s \in st.students : s.id = id

SemesterOf(st, id) == CHOOSE s \in st.semesters : s.id = id

SubjectOf(st, id) == CHOOSE s \in st.subjects : s.id = id

Term(s) == <<s.semester_number, s.exam_month, s.exam_year>>

ResultKey(st, r) ==
    <<StudentOf(st, r.student_id).usn, Term(SemesterOf(st, r.semester_id)),
      SubjectOf(st, r.subject_id).subject_code>>

ResultView(st, r) ==
    [key |-> ResultKey(st, r), internal_marks |-> r.internal_marks,
     external_marks |-> r.external_marks, total_marks |-> r.total_marks,
     upload_batch_id |-> r.upload_batch_id, result_status |-> r.result_status,
     announced_date |-> r.announced_date]

Content(st) ==
    [students |-> {[s EXCEPT !.id = 0] : s \in st.students},
     semesters |-> {Term(s) : s \in st.semesters},
     subjects |-> {[s EXCEPT !.id = 0] : s \in st.subjects},
     results |-> {ResultView(st, r) : r \in st.results}]

(***************************************************************************)
(* C1                                                                      *)
(***************************************************************************)
\* C1: whatever calls of save_extracted_data were made, and under whichever
\* upload-batch ids, the store holds at most one result row for a student,
\* a term and a subject.
C1_OneRowPerKey ==
    \A r1, r2 \in store.results :
        ResultKey(store, r1) = ResultKey(store, r2) => r1 = r2

\* two calls that both went through saved the same document under two
\* upload-batch ids, and its result is stored
C1_Witness ==
    \E i, j \in DOMAIN saved :
        /\ i < j
        /\ ~saved[i].raised /\ ~saved[j].raised
        /\ saved[i].data = saved[j].data
        /\ saved[i].upload_batch_id # saved[j].upload_batch_id
        /\ \E r \in store.results :
              /\ ResultKey(store, r)[1] = saved[j].data.usn
              /\ r.upload_batch_id = saved[j].upload_batch_id

(***************************************************************************)
(* C2                                                                      *)
(***************************************************************************)
Perms(n) == {p \in [1..n -> 1..n] : \A i, j \in 1..n : p[i] = p[j] => i = j}

RECURSIVE ApplyAll(_, _, _)
\* the documents docs, from the k-th on, each passed to save_extracted_data
\* under the tag and the upload-batch id of the batch
ApplyAll(st, docs, k) ==
    IF k > Len(docs) THEN st
    ELSE ApplyAll(save_extracted_data(st, docs[k], GoodTag, BatchId).store, docs, k + 1)

\* the store the batch would have left had it passed its documents in order p
Reordered(p) == ApplyAll(base, [i \in DOMAIN saved |-> saved[p[i]].data], 1)

\* the subject entries of the documents that the gateway does not skip
EntriesOf(docs) ==
    {x \in {[doc |-> i, k |-> k] : i \in DOMAIN docs, k \in 1..MaxEntries} :
        /\ x.k <= Len(docs[x.doc].subjects)
        /\ NormalCode(docs[x.doc].subjects[x.k].subject_code) # <<>>}

EntryAt(docs, x) == docs[x.doc].subjects[x.k]

CodeAt(docs, x) == NormalCode(EntryAt(docs, x).subject_code)

\* the trailing-letter fallback can apply to a code: the code is not stored,
\* and without its last letter it is stored or is a code of the documents
FallbackCanApply(st, docs, code) ==
    /\ Len(code) > 1
    /\ IsAlpha(code[Len(code)])
    /\ code \notin {s.subject_code : s \in st.subjects}
    /\ SubSeq(code, 1, Len(code) - 1) \in
           {s.subject_code : s \in st.subjects} \cup {CodeAt(docs, x) : x \in EntriesOf(docs)}

\* the documents say nothing different about one stored field, none repeats a
\* subject code, and the trailing-letter fallback applies to none of their codes
ConflictFree(st, docs) ==
    /\ \A i, j \in DOMAIN docs :
          docs[i].usn = docs[j].usn => docs[i].student_name = docs[j].student_name
    /\ \A x, y \in EntriesOf(docs) :
          CodeAt(docs, x) = CodeAt(docs, y) =>
              /\ NormalName(EntryAt(docs, x).subject_name, CodeAt(docs, x))
                     = NormalName(EntryAt(docs, y).subject_name, CodeAt(docs, y))
              /\ x.doc = y.doc => x.k = y.k
              /\ (/\ docs[x.doc].usn = docs[y.doc].usn
                  /\ docs[x.doc].semester = docs[y.doc].semester
                  /\ docs[x.doc].exam_month = docs[y.doc].exam_month
                  /\ docs[x.doc].exam_year = docs[y.doc].exam_year) =>
                     [EntryAt(docs, x) EXCEPT !.subject_code = <<>>, !.subject_name = <<>>]
                         = [EntryAt(docs, y) EXCEPT !.subject_code = <<>>, !.subject_name = <<>>]
    /\ \A x \in EntriesOf(docs) : ~FallbackCanApply(st, docs, CodeAt(docs, x))

BatchDocs == [i \in DOMAIN saved |-> saved[i].data]

SameCall(c1, c2) ==
    /\ c1.data = c2.data
    /\ c1.batch = c2.batch
    /\ c1.upload_batch_id = c2.upload_batch_id

\* C3: a call of save_extracted_data that repeats the call before it, with the
\* same document and the same arguments, leaves the store exactly as the first
\* call left it.
C3_RepeatedSaveChangesNothing ==
    [][(/\ Len(saved) >= 1
        /\ Len(saved') = Len(saved) + 1
        /\ SameCall(saved'[Len(saved')], saved[Len(saved)])) => store' = store]_vars

\* a document with stored results was saved twice in a row with the same
\* arguments, and neither call raised
C3_Witness ==
    /\ Len(saved) >= 2
    /\ SameCall(saved[Len(saved)], saved[Len(saved) - 1])
    /\ ~saved[Len(saved)].raised /\ ~saved[Len(saved) - 1].raised
    /\ \E r \in store.results :
          ResultKey(store, r)[1] = saved[Len(saved)].data.usn

(***************************************************************************)
(* C4                                                                      *)
(***************************************************************************)
FailedExtraction(i) == process_single_pdf(files[i], i).status # "success"

\* the entries of the failed-file list that name file i
EntriesFor(i) == {k \in DOMAIN failed_files : failed_files[k].filename = files[i].filename}

\* every subject entry of document d has its result row in st
DocStored(st, d) ==
    \A k \in DOMAIN d.subjects :
        NormalCode(d.subjects[k].subject_code) # <<>> =>
            \E r \in st.results :
                ResultKey(st, r) = <<d.usn, <<d.semester, d.exam_month, d.exam_year>>,
                                     NormalCode(d.subjects[k].subject_code)>>

\* C4 as the spec states it: a document whose extraction fails is counted once,
\* by one {filename, error} entry of the failed-file list; when the run is over
\* every other outcome has been handled and every successfully extracted
\* document is stored; and [valid, missing-term, valid] ends with processed = 2,
\* failed = 1, status Failed and both valid documents stored.
C4_FailedExtractionIsIsolated ==
    /\ \A i \in handled :
          FailedExtraction(i) =>
              \E k \in DOMAIN failed_files :
                  /\ EntriesFor(i) = {k}
                  /\ failed_files[k].error = "Failed to extract data"
    /\ (pc = "closed" /\ \E i \in handled : FailedExtraction(i)) =>
          /\ handled = DOMAIN files
          /\ \A i \in DOMAIN files :
                ~FailedExtraction(i) => DocStored(store, process_single_pdf(files[i], i).result)
    /\ (/\ pc = "closed"
        /\ handled # {}
        /\ Len(files) = 3
        /\ ~FailedExtraction(1) /\ files[2].text = TextNoTerm /\ ~FailedExtraction(3)) =>
          /\ processed = 2
          /\ failed = 1
          /\ upload_log[1].status = "FAILED"
          /\ DocStored(store, process_single_pdf(files[1], 1).result)
          /\ DocStored(store, process_single_pdf(files[3], 3).result)

(***************************************************************************)
(* C5                                                                      *)
(***************************************************************************)
\* C5 as the spec states it: when a gateway call raises while the outcome of a
\* file is handled (a threshold flush of the pending buffer), the failure is
\* not counted as a failure of that file: the run leaves the loop for the
\* terminal error handler, so that no further outcome is handled and nothing
\* more is committed.
C5_GatewayFailureAbortsBatch ==
    [][\A i \in DOMAIN files :
          (/\ pc = "loop"
           /\ Yields(i)
           /\ handled' = handled \cup {i}
           /\ TryOutcome(i).raised) =>
              /\ pc' = "error"
              /\ failed' = failed
              /\ failed_files' = failed_files]_vars

(***************************************************************************)
(* C6                                                                      *)
(***************************************************************************)
\* C6 as the spec states it: every handled outcome is counted once, in
\* processed or in failed, so that processed + failed is the number of outcomes
\* handled and never exceeds the total of the batch; no counter decreases.
C6_EachOutcomeCountedOnce ==
    [][/\ processed + failed = Cardinality(handled)
       /\ ~IsNone(upload_log) => processed + failed <= upload_log[1].total_files
       /\ processed' >= processed
       /\ failed' >= failed]_vars

(***************************************************************************)
(* C7                                                                      *)
(***************************************************************************)
\* the events that carry a percentage (all but the terminal error event)
HasPercentage(e) == "percentage" \in DOMAIN e

C8_OneEventPerOutcome ==
    (pc = "loop" /\ handled # {}) =>
        /\ Len(events) = 1 + Cardinality(handled)
        /\ events[Len(events)].processed = processed
        /\ events[Len(events)].failed = failed
        /\ events[Len(events)].total = Len(files)
        /\ events[Len(events)].percentage = ((processed + failed) * 100) \div Len(files)

(***************************************************************************)
(* C9                                                                      *)
(***************************************************************************)
StatusOf(log) == IF IsNone(log) THEN "none" ELSE log[1].status

C10_FinalUpdate ==
    /\ pc \in {"final", "summary"} =>
          /\ upload_log[1].status = "COMPLETED" <=> failed = 0
          /\ upload_log[1].status = "FAILED" <=> failed # 0
          /\ IsNone(upload_log[1].current_file)
          /\ handled = DOMAIN files
    /\ pc = "summary" =>
          /\ events[Len(events)].failed_files = failed_files
          /\ events[Len(events)].percentage = 100

\* a run with stored results and a failed file has made its final update and
\* emitted its final event
C10_Witness ==
    /\ pc = "summary"
    /\ failed > 0
    /\ processed > 0
    /\ store.results # {}
    /\ failed_files # <<>>


(***************************************************************************)
(* The bulk commits of a batch run                                         *)
(***************************************************************************)
\* the files of the batch whose extraction gave a document
Extracted == {i \in DOMAIN files : process_single_pdf(files[i], i).status = "success"}

\* the final update of the UploadLog row has been committed
FinalUpdateDone == ~IsNone(upload_log) /\ upload_log[1].completed_timestamp

NoFlushRaised == \A k \in DOMAIN flushes : ~flushes[k].raised

CeilDiv(n, d) == (n + d - 1) \div d

DocumentCommits ==
    LET RECURSIVE Sum(_)
        Sum(k) == IF k = 0 THEN 0 ELSE flushes[k].done + Sum(k - 1)
    IN  Sum(Len(flushes))

\* C12: a flush is one transaction: a flush in which a call raised has
\* committed none of its records, and the batch has made at most
\* ceil(successes/10)+1 commits of document records
C12_OneTransactionPerFlush ==
    /\ \A k \in DOMAIN flushes : flushes[k].raised => flushes[k].done = 0
    /\ DocumentCommits <= CeilDiv(Cardinality(Extracted), BulkCommitSize) + 1

\* C13: a batch upload with a malformed cohort tag creates no UploadLog row
\* and none of its documents is processed
C13_MalformedTagRejected ==
    _validate_batch(batch).raised => (IsNone(upload_log) /\ handled = {} /\ files = <<>>)

C26_BufferBelowThreshold ==
    (pc = "loop" /\ handled # {}) => Len(pending_commits) < BulkCommitSize

(***************************************************************************)
(* C27                                                                     *)
(***************************************************************************)
\* C27: once the final update has set the status, the buffer has been flushed
\* in full: the last flush took every record left in the buffer and none of
\* its calls raised, every extracted document is counted in processed, was
\* passed to save_extracted_data, and has its result rows in the store.
C27_FlushedAtFinalUpdate ==
    FinalUpdateDone =>
        /\ processed = Cardinality(Extracted)
        /\ pending_commits # <<>> =>
               /\ flushes # <<>>
               /\ flushes[Len(flushes)] = [size |-> Len(pending_commits),
                                           done |-> Len(pending_commits), raised |-> FALSE]
        /\ DocumentCommits >= processed
        /\ \A i \in Extracted : DocStored(store, process_single_pdf(files[i], i).result)

\* a batch with one failed extraction and two extracted documents, which the
\* remainder flush saved, has made its final update
C27_Witness ==
    /\ FinalUpdateDone
    /\ failed = 1
    /\ processed = 2
    /\ Len(pending_commits) = 2
    /\ Len(flushes) = 1
    /\ store.results # {}

(***************************************************************************)
(* C28                                                                     *)
(***************************************************************************)
\* get_upload_status(batch_id): 404 when the batch has no UploadLog row, else
\* the counters of the row and the percentage computed from them
get_upload_status(log) ==
    IF IsNone(log) THEN [status_code |-> 404]
    ELSE [status_code |-> 200,
          batch_id |-> log[1].batch_id,
          total_files |-> log[1].total_files,
          processed |-> log[1].processed_files,
          failed |-> log[1].failed_files,
          current_file |-> log[1].current_file,
          current_file_index |-> log[1].current_file_index,
          percentage |-> IF log[1].total_files > 0
                         THEN Percentage(log[1].processed_files + log[1].failed_files,
                                         log[1].total_files)
                         ELSE 0,
          status |-> log[1].status]

\* C28 as the spec states it: once the final update has set the status of a
\* batch, the status query reports processed + failed = total_files and
\* percentage = 100, whatever files were uploaded.
C28_StatusQueryComplete ==
    FinalUpdateDone =>
        /\ get_upload_status(upload_log).processed + get_upload_status(upload_log).failed
              = get_upload_status(upload_log).total_files
        /\ get_upload_status(upload_log).percentage = 100

(***************************************************************************)
(* The extraction tasks of one batch in the thread pool, and their raw     *)
(* files on disk                                                           *)
(***************************************************************************)
MaxTasks == 2

\* a document whose semester line reads "Semester : 12"
TextSem12 == Text(TRUE, Some(Usn1), Some(<<"A","N","U">>), Some(12), June, Some(2024),
                  <<E_Cs(40, Some(<<"P">>), Date1)>>)

\* the documents of the tasks
TaskTexts == {TextA, TextNoTerm, TextNoSubjects, TextSem12, Unreadable}

\* lines 492-495: the tasks of up to MaxTasks files, extractable or not, are
\* submitted, every raw file is on disk; KEEP_RAW_FILES is read from the
\* environment when the module is loaded
SubmitTasks ==
    /\ tasks = NoTasks
    /\ \E keep \in BOOLEAN, n \in 1..MaxTasks,
          ks \in [1..MaxTasks -> TaskTexts] :
        \E fs \in {[i \in 1..n |-> File(i, ks[i])]} :
          tasks' = [keep |-> keep, files |-> fs, raw |-> DOMAIN fs,
                    at |-> [i \in DOMAIN fs |-> "submitted"],
                    out |-> [i \in DOMAIN fs |-> NoneV],
                    unlink_errors |-> {}]
    /\ UNCHANGED <<store, base, saved, coordVars, scan, pool, logs>>

\* process_single_pdf, lines 468-478: the try block of task i has its outcome
TaskBody(i) ==
    /\ i \in DOMAIN tasks.files
    /\ tasks.at[i] = "submitted"
    /\ tasks' = [tasks EXCEPT !.at[i] = "finally",
                              !.out[i] = Some(process_single_pdf(tasks.files[i], i))]
    /\ UNCHANGED <<store, base, saved, coordVars, scan, pool, logs>>

\* a deletion without the inner try: its error leaves the task
UnlinkRaw_NotGuarded(keep, exists, fails) ==
    IF keep \/ ~exists THEN [exists |-> exists, failed |-> FALSE, raised |-> FALSE]
    ELSE IF fails THEN [exists |-> TRUE, failed |-> TRUE, raised |-> TRUE]
    ELSE [exists |-> FALSE, failed |-> FALSE, raised |-> FALSE]

\* process_single_pdf, lines 482-489: if not KEEP_RAW_FILES, the file is
\* unlinked if it exists; an exception of exists() or unlink() is passed over
UnlinkRaw(keep, exists, fails) ==
    IF keep \/ ~exists THEN [exists |-> exists, failed |-> FALSE, raised |-> FALSE]
    ELSE IF fails THEN [exists |-> TRUE, failed |-> TRUE, raised |-> FALSE]
    ELSE [exists |-> FALSE, failed |-> FALSE, raised |-> FALSE]

\* process_single_pdf, lines 480-489: the finally block of task i, in which
\* the deletion works or fails; then the task returns what the try block gave
TaskFinally(i) ==
    /\ i \in DOMAIN tasks.files
    /\ tasks.at[i] = "finally"
    /\ \E fails \in BOOLEAN :
          \E u \in {UnlinkRaw(tasks.keep, i \in tasks.raw, fails)} :
              tasks' = [tasks EXCEPT
                          !.raw = IF u.exists THEN tasks.raw \cup {i} ELSE tasks.raw \ {i},
                          !.unlink_errors = IF u.failed THEN @ \cup {i} ELSE @,
                          !.at[i] = IF u.raised THEN "aborted" ELSE "returned",
                          !.out[i] = IF u.raised THEN NoneV ELSE @]
    /\ UNCHANGED <<store, base, saved, coordVars, scan, pool, logs>>

NextTask ==
    \/ SubmitTasks
    \/ \E i \in 1..MaxTasks : TaskBody(i)
    \/ \E i \in 1..MaxTasks : TaskFinally(i)

SpecTask == Init /\ [][NextTask]_vars

Returned(i) == i \in DOMAIN tasks.files /\ tasks.at[i] = "returned"

\* C14 as stated: with the retention flag unset the raw file of a task that
\* has returned no longer exists
C14_RawFileGone ==
    \A i \in DOMAIN tasks.files : (~tasks.keep /\ Returned(i)) => i \notin tasks.raw

\* C14: with the retention flag unset the raw file of a task that has
\* returned no longer exists unless its deletion failed; no task is aborted,
\* and a task that has returned gives the outcome of its try block whether
\* the deletion failed or not
C14_RawFileGoneUnlessUnlinkFailed ==
    \A i \in DOMAIN tasks.files :
        /\ tasks.at[i] # "aborted"
        /\ (~tasks.keep /\ Returned(i) /\ i \notin tasks.unlink_errors) => i \notin tasks.raw
        /\ Returned(i) => tasks.out[i] = Some(process_single_pdf(tasks.files[i], i))

\* a task returned its outcome after the deletion of its raw file failed,
\* another returned and its file is gone
C14_Witness ==
    /\ ~tasks.keep
    /\ \E i \in DOMAIN tasks.files :
          Returned(i) /\ i \in tasks.unlink_errors /\ i \in tasks.raw
    /\ \E i \in DOMAIN tasks.files :
          Returned(i) /\ i \notin tasks.unlink_errors /\ i \notin tasks.raw
                      /\ tasks.out[i][1].status = "success"

\* C21: a task gives a result only for a document in which the seat number
\* and the semester were found and the scan emitted an entry, and the result
\* has a subject; a document without a semester or without an emitted
\* subject gives a failure
C21_ResultOnlyWithTermAndSubjects ==
    \A i \in DOMAIN tasks.files :
        ~IsNone(tasks.out[i]) =>
            LET text == tasks.files[i].text
                o == tasks.out[i][1]
            IN  /\ o.status = "success" =>
                      /\ o.result.subjects # <<>>
                      /\ ~IsNone(text.usn) /\ ~IsNone(text.semester)
                      /\ text.subjects # <<>>
                /\ (IsNone(text.semester) \/ text.subjects = <<>>) => o.status = "failed"

\* one task gave a result with a subject, one failed on a document in which
\* seat number and semester are found and the scan emits nothing
C21_Witness ==
    /\ \E i \in DOMAIN tasks.files :
          Returned(i) /\ tasks.out[i][1].status = "success"
                      /\ tasks.out[i][1].result.subjects # <<>>
    /\ \E i \in DOMAIN tasks.files :
          Returned(i) /\ tasks.files[i].text = TextNoSubjects
                      /\ tasks.out[i][1].status = "failed"

\* C22: the semester of every result a task gives lies in 1..8
C22_SemesterInRange ==
    \A i \in DOMAIN tasks.files :
        (~IsNone(tasks.out[i]) /\ tasks.out[i][1].status = "success")
            => tasks.out[i][1].result.semester \in 1..8

(***************************************************************************)
(* The gateway: student, subject and status of a stored document           *)
(***************************************************************************)
\* the call of save_extracted_data made by the step at hand
ThisCall == saved'[Len(saved')]

\* the step is a call that returned and found the student row old, which it
\* leaves as new
Upserted(old, new) ==
    /\ Len(saved') = Len(saved) + 1
    /\ ~ThisCall.raised
    /\ old \in store.students
    /\ new \in store'.students
    /\ old.usn = ThisCall.data.usn
    /\ new.usn = old.usn

Populated(v) == ~IsNone(v) /\ v # Some(<<>>)

\* a populated batch or branch of an existing student is left as it is
KeepsPopulated(old, new) ==
    /\ Populated(old.batch) => new.batch = old.batch
    /\ Populated(old.branch) => new.branch = old.branch

\* C15 as stated: a call that finds the student leaves a populated batch and
\* branch as they are and leaves the name of the document as the stored name
C15_NameAlwaysReplaced ==
    [][\A old \in store.students, new \in store'.students :
          Upserted(old, new) =>
              /\ KeepsPopulated(old, new)
              /\ new.student_name = ThisCall.data.student_name]_vars

\* C15: a call that finds the student leaves a populated batch and branch as
\* they are; it leaves the name of the document as the stored name unless
\* that name is empty, and then the stored name stays
C15_NameReplacedUnlessEmpty ==
    [][\A old \in store.students, new \in store'.students :
          Upserted(old, new) =>
              /\ KeepsPopulated(old, new)
              /\ new.student_name = IF ThisCall.data.student_name # <<>>
                                    THEN ThisCall.data.student_name
                                    ELSE old.student_name]_vars

\* a student stored under one cohort tag was upserted under another tag by a
\* document with a blank name: tag and name are those of the first call
C15_Witness ==
    /\ Len(saved) = 2
    /\ ~saved[1].raised /\ ~saved[2].raised
    /\ saved[1].data.usn = saved[2].data.usn
    /\ saved[1].batch = GoodTag /\ saved[2].batch = OtherTag
    /\ saved[2].data.student_name = <<>>
    /\ \E s \in store.students :
          /\ s.usn = saved[2].data.usn
          /\ s.batch = GoodTag
          /\ s.student_name = saved[1].data.student_name
          /\ s.student_name # <<>>

\* the step is a call that returned
Returns == Len(saved') = Len(saved) + 1 /\ ~ThisCall.raised

\* the key under which the call at hand stores a result of subject code
KeyOfCall(code) ==
    <<ThisCall.data.usn,
      <<ThisCall.data.semester, ThisCall.data.exam_month, ThisCall.data.exam_year>>,
      code>>

\* C16: when a call returns, for each of its entries whose normalized code
\* ends with a letter and was not the code of a subject while that code
\* without the letter was: no subject with the code has been created, the
\* subject with the shorter code is as it was, and the result of the entry is
\* stored under the shorter code
C16_TrailingLetterFallback ==
    [][Returns =>
         \A k \in DOMAIN ThisCall.data.subjects :
            LET e == ThisCall.data.subjects[k]
                code == NormalCode(e.subject_code)
                alt_code == SubSeq(code, 1, Len(code) - 1)
            IN  (/\ code # <<>>
                 /\ IsAlpha(code[Len(code)])
                 /\ \A s \in store.subjects : s.subject_code # code
                 /\ \E s \in store.subjects : s.subject_code = alt_code)
                => /\ \A s \in store'.subjects : s.subject_code # code
                   /\ \A s \in store.subjects : s.subject_code = alt_code => s \in store'.subjects
                   /\ \E r \in store'.results :
                         /\ ResultKey(store', r) = KeyOfCall(alt_code)
                         /\ r.total_marks = e.total_marks]_vars

\* BPHYS102 PHYSICS LAB was stored; a document with BPHYS102P HYSICS LAB was
\* saved after it: its result is under BPHYS102 and there is no BPHYS102P
C16_Witness ==
    /\ Len(saved) = 2
    /\ ~saved[2].raised
    /\ saved[2].data.subjects = <<E_PhGlued>>
    /\ \E s \in store.subjects :
          s.subject_code = <<"B","P","H","Y","S","1","0","2">> /\ s.subject_name = <<"P","H","Y","S","I","C","S"," ","L","A","B">>
    /\ \A s \in store.subjects : s.subject_code # <<"B","P","H","Y","S","1","0","2","P">>
    /\ \E r \in store.results :
          /\ ResultKey(store, r) = <<Usn1, <<3, June, Some(2024)>>, <<"B","P","H","Y","S","1","0","2">>>>
          /\ r.total_marks = E_PhGlued.total_marks

\* a status that is neither a short code nor a known long form
Unrecognized(status) ==
    /\ ~IsNone(status)
    /\ Upper(Strip(status[1])) \notin StatusCodes \cup DOMAIN long_to_code

\* C17: when a call returns, the result of each of its entries whose status
\* is not recognized is stored with that status as it was given
C17_UnrecognizedStatusKept ==
    [][Returns =>
         \A k \in DOMAIN ThisCall.data.subjects :
            LET e == ThisCall.data.subjects[k]
            IN  Unrecognized(e.result_status) =>
                   \A r \in store'.results :
                      ResultKey(store', r) = KeyOfCall(NormalCode(e.subject_code))
                          => r.result_status = e.result_status]_vars

(***************************************************************************)
(* C30                                                                     *)
(***************************************************************************)
\* the entries of the document of the call at hand whose normalized code is code
EntriesWith(code) ==
    {k \in DOMAIN ThisCall.data.subjects :
        NormalCode(ThisCall.data.subjects[k].subject_code) = code}

\* C30 as the spec states it: a call with a valid tag whose document lists a
\* subject code twice returns, and leaves one result row for the student, the
\* term and the subject, with the marks of the later entry.
C30_RepeatedCodeKeepsLater ==
    [][(Len(saved') = Len(saved) + 1 /\ ThisCall.batch = GoodTag) =>
          \A k \in DOMAIN ThisCall.data.subjects :
              LET code == NormalCode(ThisCall.data.subjects[k].subject_code)
                  last == CHOOSE l \in EntriesWith(code) : \A m \in EntriesWith(code) : m <= l
              IN  (code # <<>> /\ Cardinality(EntriesWith(code)) > 1) =>
                      /\ ~ThisCall.raised
                      /\ Cardinality({r \in store'.results :
                                         ResultKey(store', r) = KeyOfCall(code)}) = 1
                      /\ \A r \in store'.results :
                            ResultKey(store', r) = KeyOfCall(code) =>
                                r.total_marks = ThisCall.data.subjects[last].total_marks]_vars

(***************************************************************************)
(* The subject scan of the extractor (VTUResultExtractor._extract_subjects)*)
(* over the lines of a document                                            *)
(***************************************************************************)
\* str.lower()
Lower(s) ==
    [i \in DOMAIN s |->
        IF IsUpper(s[i]) THEN LowerChars[CHOOSE k \in DOMAIN UpperChars : UpperChars[k] = s[i]]
        ELSE s[i]]

\* subject_start_re.match(line): ^([A-Z]{3,6}\d{3}(?:[A-Z](?=\s|$))?)\s*(.*)$
\* None, or the code (group 1) and the stripped rest of the line (group 2)
SubjectStart(line) ==
    LET n == RunLen(line, 1, TRUE)
        d == RunLen(line, n + 1, FALSE)
        suffix == /\ Len(line) >= n + 4
                  /\ IsUpper(line[n + 4])
                  /\ (Len(line) = n + 4 \/ IsSpace(line[n + 5]))
        m == IF suffix THEN n + 4 ELSE n + 3
    IN  IF n \in 3..6 /\ d >= 3
        THEN Some([code |-> SubSeq(line, 1, m),
                   rest |-> Strip(SubSeq(line, m + 1, Len(line)))])
        ELSE NoneV

\* marks_re.search(text):
\* (\d{1,3})\s+(\d{1,3})\s+(\d{1,3})\s+(P|F|A|W|X|NE)\s+(\d{4}-\d{2}-\d{2})
\* None, or the leftmost match: where it starts and its five groups, the
\* numbers as int() gives them, the date as its three number fields
MarksSearch(text) ==
    LET RECURSIVE Spaces(_)
        Spaces(i) == IF i <= Len(text) /\ IsSpace(text[i]) THEN 1 + Spaces(i + 1) ELSE 0
        \* \d{1,3}\s+ at i: the position after it, or 0
        Number(i) ==
            LET k == RunLen(text, i, FALSE)
            IN  IF i > 0 /\ k \in 1..3 /\ Spaces(i + k) >= 1 THEN i + k + Spaces(i + k) ELSE 0
        Digits(i, k) == i + k - 1 <= Len(text) /\ \A j \in i..(i + k - 1) : IsDigit(text[j])
        \* (P|F|A|W|X|NE) at i: its length, or 0
        Status(i) ==
            IF i = 0 \/ i > Len(text) THEN 0
            ELSE IF text[i] \in {"P", "F", "A", "W", "X"} THEN 1
            ELSE IF StartsWithAt(text, i, <<"N","E">>) THEN 2
            ELSE 0
        Date(i) ==
            /\ Digits(i, 4) /\ StartsWithAt(text, i + 4, <<"-">>)
            /\ Digits(i + 5, 2) /\ StartsWithAt(text, i + 7, <<"-">>)
            /\ Digits(i + 8, 2)
        At(p) ==
            LET p2 == Number(p)
                p3 == Number(p2)
                p4 == Number(p3)
                s == Status(p4)
                p5 == p4 + s + Spaces(p4 + s)
            IN  IF p4 > 0 /\ s > 0 /\ Spaces(p4 + s) >= 1 /\ Date(p5)
                THEN Some([start |-> p,
                           internal |-> IntOf(SubSeq(text, p, p + RunLen(text, p, FALSE) - 1)),
                           external |-> IntOf(SubSeq(text, p2, p2 + RunLen(text, p2, FALSE) - 1)),
                           total |-> IntOf(SubSeq(text, p3, p3 + RunLen(text, p3, FALSE) - 1)),
                           status |-> SubSeq(text, p4, p4 + s - 1),
                           date |-> <<IntOf(SubSeq(text, p5, p5 + 3)),
                                      IntOf(SubSeq(text, p5 + 5, p5 + 6)),
                                      IntOf(SubSeq(text, p5 + 8, p5 + 9))>>])
                ELSE NoneV
        hits == {p \in DOMAIN text : ~IsNone(At(p))}
    IN  IF hits = {} THEN NoneV
        ELSE At(CHOOSE p \in hits : \A q \in hits : p <= q)

\* clean_subject_name(name)
clean_subject_name(name) ==
    LET n == CollapseSpaces(Strip(name))
    IN  IF /\ Len(n) >= 12
           /\ IsAlpha(n[1])
           /\ \E w \in {<<"I","N","T","R","O","D","U","C","T","I","O","N">>, <<"P","R","I","N","C","I","P","L","E","S">>, <<"F","U","N","D","A","M","E","N","T","A","L","S">>} :
                 StartsWithAt(Upper(n), 2, w)
        THEN LStrip(Tail(n))
        ELSE n

\* is_noise_line(text)
is_noise_line(text) ==
    LET lowered == Lower(Strip(text))
        Contains(w) == \E i \in DOMAIN lowered : StartsWithAt(lowered, i, w)
        header_tokens == {<<"s","u","b","j","e","c","t">>, <<"c","o","d","e">>, <<"s","u","b","j","e","c","t"," ","n","a","m","e">>, <<"i","n","t","e","r","n","a","l">>, <<"e","x","t","e","r","n","a","l">>,
                          <<"m","a","r","k","s">>, <<"t","o","t","a","l">>, <<"r","e","s","u","l","t">>, <<"a","n","n","o","u","n","c","e","d">>, <<"u","p","d","a","t","e","d">>, <<"o","n">>}
        \* re.findall(r"[a-zA-Z]+", lowered)
        words == {SubSeq(lowered, x[1], x[2]) :
                    x \in {y \in (DOMAIN lowered) \X (DOMAIN lowered) :
                             /\ y[1] <= y[2]
                             /\ \A j \in y[1]..y[2] : IsAlpha(lowered[j])
                             /\ (y[1] = 1 \/ ~IsAlpha(lowered[y[1] - 1]))
                             /\ (y[2] = Len(lowered) \/ ~IsAlpha(lowered[y[2] + 1]))}}
    IN  \/ lowered = <<>>
        \/ Contains(<<"n","o","m","e","n","c","l","a","t","u","r","e">>) \/ Contains(<<"a","b","b","r","e","v","i","a","t","i","o","n","s">>)
        \/ StartsWithAt(lowered, 1, <<"n","o","t","e">>)
        \/ StartsWithAt(lowered, 1, <<"r","e","s","u","l","t","s"," ","o","f">>) \/ Contains(<<"r","e","g","i","s","t","r","a","r">>)
        \/ Contains(<<"s","d","/">>)
        \/ (words # {} /\ \A w \in words : w \in header_tokens)

\* an entry that keeps a mark of 0
ScanEntry_KeepsZero(subject_code, subject_name, marks) ==
    Entry(subject_code, subject_name, Some(marks.internal), Some(marks.external),
          Some(marks.total), Some(marks.status), Some(marks.date))

\* lines 268-278 and 313-323: the ExtractedSubjectResult of a marks tuple
ScanEntry(subject_code, subject_name, marks) ==
    Entry(subject_code, subject_name,
          IF marks.internal # 0 THEN Some(marks.internal) ELSE NoneV,
          IF marks.external # 0 THEN Some(marks.external) ELSE NoneV,
          Some(marks.total), Some(marks.status), Some(marks.date))

\* a scan that does not look for marks on the line of the code
SameLineMarks_Ignored(rest_of_line) == NoneV

\* lines 258-259: if rest_of_line: same_line_marks = marks_re.search(rest_of_line)
SameLineMarks(rest_of_line) ==
    IF rest_of_line # <<>> THEN MarksSearch(rest_of_line) ELSE NoneV

\* a break that also steps over the line of the next subject
Abandon_SkipsLine(s) ==
    [s EXCEPT !.mode = "outer", !.subject_code = <<>>, !.parts = <<>>, !.i = @ + 1]

\* lines 295-297 and 334-336: break at the next subject, found_marks is False:
\* the outer loop continues at the same line
Abandon(s) == [s EXCEPT !.mode = "outer", !.subject_code = <<>>, !.parts = <<>>]

\* lines 247-285: one pass of the outer loop, at line i
OuterPass(s) ==
    LET line == Strip(s.lines[s.i])
        start_match == SubjectStart(line)
        rest_of_line == start_match[1].rest
        same_line_marks == SameLineMarks(rest_of_line)
    IN  IF IsNone(start_match) THEN [s EXCEPT !.i = @ + 1]
        ELSE IF ~IsNone(same_line_marks)
        THEN [s EXCEPT
                !.subjects = Append(@, ScanEntry(start_match[1].code,
                      clean_subject_name(Strip(SubSeq(rest_of_line, 1,
                                                      same_line_marks[1].start - 1))),
                      same_line_marks[1])),
                !.i = @ + 1]
        ELSE [s EXCEPT !.mode = "inner", !.i = @ + 1,
                       !.subject_code = start_match[1].code,
                       !.parts = IF rest_of_line # <<>> /\ ~is_noise_line(rest_of_line)
                                 THEN <<rest_of_line>> ELSE <<>>]

\* lines 288-331: one pass of the inner loop, at line i
InnerPass(s) ==
    LET next_line == Strip(s.lines[s.i])
        next_marks == MarksSearch(next_line)
        before_marks == Strip(SubSeq(next_line, 1, next_marks[1].start - 1))
        parts == IF before_marks # <<>> /\ ~is_noise_line(before_marks)
                 THEN Append(s.parts, before_marks) ELSE s.parts
        RECURSIVE Join(_)
        \* " ".join(p for p in collected_name_parts if p)
        Join(ps) == IF ps = <<>> THEN <<>>
                    ELSE IF Len(ps) = 1 THEN ps[1]
                    ELSE ps[1] \o <<" ">> \o Join(Tail(ps))
    IN  IF next_line = <<>> THEN [s EXCEPT !.i = @ + 1]
        ELSE IF ~IsNone(SubjectStart(next_line)) THEN Abandon(s)
        ELSE IF ~IsNone(next_marks)
        THEN [s EXCEPT
                !.subjects = Append(@, ScanEntry(s.subject_code,
                                                 clean_subject_name(Strip(Join(parts))),
                                                 next_marks[1])),
                !.i = @ + 1, !.mode = "outer", !.subject_code = <<>>, !.parts = <<>>]
        ELSE [s EXCEPT !.i = @ + 1,
                       !.parts = IF ~is_noise_line(next_line) THEN Append(@, next_line)
                                 ELSE @]

\* lines 244-245: lines = content.split("\n"); i = 0
BeginScan(lines) ==
    [lines |-> lines, i |-> 1, mode |-> "outer", subjects |-> <<>>,
     subject_code |-> <<>>, parts |-> <<>>]

\* _extract_subjects(content), content given as its lines: the loops run to
\* the end of the lines
_extract_subjects(lines) ==
    LET RECURSIVE RunScan(_)
        RunScan(s) ==
            IF s.i > Len(s.lines) THEN s.subjects
            ELSE RunScan(IF s.mode = "outer" THEN OuterPass(s) ELSE InnerPass(s))
    IN  RunScan(BeginScan(lines))

\* lines of one document
MaxLines == 4

\* the lines the documents are made of: a subject with its marks on the line
\* of the code, a code glued to a name, a marks row, a blank line, a table
\* header, a code alone, a marks row after a piece of a name
ScanLines ==
    {<<"B","C","S","3","0","1"," ","M","A","T","H","S"," ","0"," ","4","5"," ","4","5"," ","P"," ","2","0","2","4","-","0","6","-","1","0">>,
     <<"B","P","H","Y","S","1","0","2","P","H","Y","S","I","C","S">>,
     <<"4","0"," ","0"," ","4","0"," ","F"," ","2","0","2","4","-","0","6","-","1","0">>,
     <<" "," ">>,
     <<"S","u","b","j","e","c","t"," ","C","o","d","e">>,
     <<"B","C","S","3","0","2","A">>,
     <<"A","N","D"," ","D","E","S","I","G","N"," ","1","0","0"," ","4","5"," ","1","4","5"," ","N","E"," ","2","0","2","4","-","0","6","-","1","0">>}

\* _parse_markdown_content, line 167: the scan of a document starts
StartScan ==
    /\ scan = NoScan
    /\ \E n \in 1..MaxLines : \E lines \in [1..n -> ScanLines] : scan' = BeginScan(lines)
    /\ UNCHANGED <<store, base, saved, coordVars, tasks, pool, logs>>

OuterStep ==
    /\ scan # NoScan
    /\ scan.mode = "outer"
    /\ scan.i <= Len(scan.lines)
    /\ scan' = OuterPass(scan)
    /\ UNCHANGED <<store, base, saved, coordVars, tasks, pool, logs>>

InnerStep ==
    /\ scan # NoScan
    /\ scan.mode = "inner"
    /\ scan.i <= Len(scan.lines)
    /\ scan' = InnerPass(scan)
    /\ UNCHANGED <<store, base, saved, coordVars, tasks, pool, logs>>

\* line 339: return subjects
EndScan ==
    /\ scan # NoScan
    /\ scan.mode \in {"outer", "inner"}
    /\ scan.i > Len(scan.lines)
    /\ scan' = [scan EXCEPT !.mode = "done", !.subject_code = <<>>, !.parts = <<>>]
    /\ UNCHANGED <<store, base, saved, coordVars, tasks, pool, logs>>

NextScan == StartScan \/ OuterStep \/ InnerStep \/ EndScan

SpecScan == Init /\ [][NextScan]_vars

\* the lines of a document that start a subject
StartLines(lines) == {i \in DOMAIN lines : ~IsNone(SubjectStart(Strip(lines[i])))}

\* the marks tuple of the block that starts at line i: the first one after
\* the code, on that line or on a later line before the next line that
\* starts a subject; None if there is none
BlockMarks(lines, i) ==
    LET same == MarksSearch(SubjectStart(Strip(lines[i]))[1].rest)
        later == {k \in DOMAIN lines :
                    /\ k > i
                    /\ \A j \in (i + 1)..k : j \notin StartLines(lines)
                    /\ ~IsNone(MarksSearch(Strip(lines[k])))}
    IN  IF ~IsNone(same) THEN same
        ELSE IF later = {} THEN NoneV
        ELSE MarksSearch(Strip(lines[CHOOSE k \in later : \A j \in later : k <= j]))

\* C18: when the scan of a document has returned and every line that starts
\* a subject is followed, before the next such line, by a marks tuple, the
\* scan has emitted one entry for each of these lines, in their order, with
\* the code of the line and the marks of its block
C18_OneEntryPerBlock ==
    (scan.mode = "done" /\ \A i \in StartLines(scan.lines) : ~IsNone(BlockMarks(scan.lines, i)))
    => /\ Len(scan.subjects) = Cardinality(StartLines(scan.lines))
       /\ \A i \in StartLines(scan.lines) :
             LET k == Cardinality({j \in StartLines(scan.lines) : j <= i})
                 e == scan.subjects[k]
                 t == BlockMarks(scan.lines, i)[1]
             IN  /\ e.subject_code = SubjectStart(Strip(scan.lines[i]))[1].code
                 /\ e.total_marks = Some(t.total)
                 /\ e.result_status = Some(t.status)
                 /\ e.announced_date = Some(t.date)

\* a document of two blocks, one with its marks on the line of the code and
\* one with its marks on a later line, gave two entries
C18_Witness ==
    /\ scan.mode = "done"
    /\ Cardinality(StartLines(scan.lines)) = 2
    /\ Len(scan.subjects) = 2
    /\ \E i \in StartLines(scan.lines) :
          IsNone(MarksSearch(SubjectStart(Strip(scan.lines[i]))[1].rest))
    /\ \E i \in StartLines(scan.lines) :
          ~IsNone(MarksSearch(SubjectStart(Strip(scan.lines[i]))[1].rest))

\* C19: the entry a pass of the scan emits has its internal and external
\* marks absent where the marks tuple it read has 0, and as the tuple has
\* them otherwise
C19_ZeroMarksAbsent ==
    [][(scan.mode \in {"outer", "inner"} /\ Len(scan'.subjects) = Len(scan.subjects) + 1) =>
          LET e == scan'.subjects[Len(scan'.subjects)]
              line == Strip(scan.lines[scan.i])
              t == IF scan.mode = "outer" THEN MarksSearch(SubjectStart(line)[1].rest)[1]
                   ELSE MarksSearch(line)[1]
          IN  /\ e.internal_marks = (IF t.internal = 0 THEN NoneV ELSE Some(t.internal))
              /\ e.external_marks = (IF t.external = 0 THEN NoneV ELSE Some(t.external))
              /\ e.internal_marks # Some(0)
              /\ e.external_marks # Some(0)]_vars

\* the tuple 0 45 45 P 2024-06-10 gave an entry without internal marks and
\* with external marks 45; the tuple 40 0 40 gave one without external marks
C19_Witness ==
    /\ scan.mode = "done"
    /\ \E k \in DOMAIN scan.subjects :
          /\ IsNone(scan.subjects[k].internal_marks)
          /\ scan.subjects[k].external_marks = Some(45)
          /\ scan.subjects[k].total_marks = Some(45)
    /\ \E k \in DOMAIN scan.subjects :
          /\ IsNone(scan.subjects[k].external_marks)
          /\ scan.subjects[k].internal_marks = Some(40)

\* the scan stands at a line that starts a subject
AtStart == scan.i \in DOMAIN scan.lines /\ ~IsNone(SubjectStart(Strip(scan.lines[scan.i])))

\* C20: a pass of the inner loop that meets a line that starts a subject
\* emits nothing and leaves the scan at that line, in the outer loop; a pass
\* of the outer loop at a line that starts a subject takes the code of that
\* line, for an entry or for the lines that follow; and a scan that reaches
\* the end of the lines while it looks for marks returns without an entry
\* for the open subject
C20_AbandonedSubjectEmitsNothing ==
    [][/\ (scan.mode = "inner" /\ AtStart) =>
             /\ scan'.subjects = scan.subjects
             /\ scan'.i = scan.i
             /\ scan'.mode = "outer"
       /\ (scan.mode = "outer" /\ AtStart) =>
             LET code == SubjectStart(Strip(scan.lines[scan.i]))[1].code
             IN  /\ scan'.i = scan.i + 1
                 /\ \/ scan'.mode = "inner" /\ scan'.subject_code = code
                       /\ scan'.subjects = scan.subjects
                    \/ /\ scan'.mode = "outer"
                       /\ Len(scan'.subjects) = Len(scan.subjects) + 1
                       /\ scan'.subjects[Len(scan'.subjects)].subject_code = code
       /\ (scan.mode = "inner" /\ scan.i > Len(scan.lines)) =>
             /\ scan'.mode = "done"
             /\ scan'.subjects = scan.subjects]_vars

\* a code glued to a name, then a subject with its marks, then a code alone:
\* the scan returned the entry of the second line only
C20_Witness ==
    /\ scan.mode = "done"
    /\ scan.lines = <<<<"B","P","H","Y","S","1","0","2","P","H","Y","S","I","C","S">>, <<"B","C","S","3","0","1"," ","M","A","T","H","S"," ","0"," ","4","5"," ","4","5"," ","P"," ","2","0","2","4","-","0","6","-","1","0">>, <<"B","C","S","3","0","2","A">>>>
    /\ Len(scan.subjects) = 1
    /\ scan.subjects[1].subject_code = <<"B","C","S","3","0","1">>

(***************************************************************************)
(* The thread pool: the extraction tasks of one batch on the workers of    *)
(* the executor, one of which may never return                             *)
(***************************************************************************)
\* main.py line 139: executor = ThreadPoolExecutor(max_workers=8)
MaxWorkers == 8

\* ThreadPoolExecutor: a queued task starts when fewer than max_workers run
SlotFree(running) == Cardinality(running) < MaxWorkers

HungKinds == {TextA, TextB, TextNoTerm}

\* the uploads of the pool: short lists of every kind, and a list longer than
\* the pool and the flush threshold
HungUploads ==
    UNION {{[i \in 1..n |-> File(i, ks[i])] : ks \in [1..n -> HungKinds]} : n \in 1..2}
    \cup {[i \in 1..(BulkCommitSize + 1) |-> File(i, TextA)]}

\* upload_batch_pdfs for a batch in which the extraction of at most one file
\* never returns
UploadHung ==
    /\ \E uploaded \in HungUploads, tag \in {GoodTag, BadTag} :
          /\ Accepted(uploaded, tag)
          /\ \E h \in {{}} \cup {{i} : i \in DOMAIN uploaded} :
                pool' = [NoPool EXCEPT !.hung = h]
    /\ UNCHANGED <<tasks, scan, logs>>

\* lines 491-495: the futures are submitted in upload order; the executor
\* starts the first queued one on a free worker
WorkerTakes ==
    /\ pc = "loop"
    /\ SlotFree(pool.running)
    /\ \E i \in DOMAIN files :
          /\ i \notin pool.running \cup pool.finished
          /\ \A j \in 1..(i - 1) : j \in pool.running \cup pool.finished
          /\ pool' = [pool EXCEPT !.running = @ \cup {i}]
    /\ UNCHANGED <<store, base, saved, coordVars, tasks, scan, logs>>

\* process_single_pdf returns on its worker; files with the same content are
\* interchangeable and the first of them stands for each
WorkerReturns ==
    /\ pc = "loop"
    /\ \E i \in pool.running \ pool.hung :
          /\ \A j \in pool.running \ pool.hung : files[j].text = files[i].text => i <= j
          /\ pool' = [pool EXCEPT !.running = @ \ {i}, !.finished = @ \cup {i}]
    /\ UNCHANGED <<store, base, saved, coordVars, tasks, scan, logs>>

\* the future of file i is done and as_completed has not yielded it
Done(i) == i \in pool.finished \ handled

\* lines 498-556: as_completed yields a future that is done
HandleDone ==
    /\ pc = "loop"
    /\ \E i \in DOMAIN files :
          /\ Done(i)
          /\ \A j \in DOMAIN files : (Done(j) /\ files[j].text = files[i].text) => i <= j
          /\ Handle(i)
    /\ UNCHANGED aloneVars

NextHung ==
    \/ UploadHung
    \/ StartProcessing
    \/ WorkerTakes
    \/ WorkerReturns
    \/ HandleDone
    \/ Finish
    \/ FinalBroadcast
    \/ SummaryNotification
    \/ HandleError

\* a done future is waiting for the coordinator
DoneLeft == pc = "loop" /\ pool.finished # handled

\* The workers are threads of the operating system and the coordinator is an
\* asyncio task: a worker with a queued task takes it, a task that is not hung
\* returns, and the coordinator handles a future that is done.  The fairness
\* of HandleDone is written out with its enabling condition, as in SpecFair.
SpecHung ==
    /\ Init /\ [][NextHung]_vars
    /\ WF_vars(WorkerTakes)
    /\ WF_vars(WorkerReturns)
    /\ (<>[]DoneLeft => []<><<HandleDone>>_vars)

(***************************************************************************)
(* C25                                                                     *)
(***************************************************************************)
Others == DOMAIN files \ pool.hung

\* the liveness part of C25: with one task hung, every other future of the
\* batch is eventually yielded and handled
OthersEventuallyHandled == (pc = "loop") ~> (handled = Others)

\* C25 as the spec states it: with one task hung, the outcomes of all other
\* tasks are eventually handled: each is counted, the buffer was flushed when
\* it reached the threshold, and each was reported by a progress event.
C25_HungTaskBlocksOnlyItself ==
    (pc = "loop") ~>
        /\ handled = Others
        /\ processed + failed >= Cardinality(handled)
        /\ Cardinality(Extracted \cap handled) >= BulkCommitSize => flushes # <<>>
        /\ Len(events) = 1 + Cardinality(handled)

(***************************************************************************)
(* Batches writing result rows and being deleted: save_extracted_data      *)
(* called under the ids of batches and of single uploads, and delete_batch *)
(***************************************************************************)
\* the documents written: two of one student that share the subject BCS101,
\* one of another student, and one that the range check rejects
DeleteDocs ==
    {Doc(Usn1, <<"A","N","U">>, 3, June, Some(2024), <<E_Cs(40, Some(<<"P">>), Date1)>>),
     Doc(Usn1, <<"A","N","U">>, 3, June, Some(2024), <<E_Lower, E_Ph>>),
     Doc(Usn2, <<"R","A","V","I">>, 3, June, Some(2024), <<E_Cs(22, Some(<<"X","Y","Z">>), Date1), E_Ph>>),
     Doc(Usn1, <<"A","N","U">>, 3, June, Some(2024), <<E_Cs(60, Some(<<"P">>), Date1)>>)}

\* upload_batch_pdfs, lines 394-404: the UploadLog row of a new batch; batch
\* ids are fresh (uuid4)
CreateLog ==
    /\ \E b \in BatchIds \ (logs.open \cup logs.deleted) :
          logs' = [logs EXCEPT !.open = @ \cup {b}]
    /\ UNCHANGED <<store, base, saved, coordVars, tasks, scan, pool>>

\* upload_single_pdf, line 309: save_extracted_data(db, data, batch, "SINGLE")
WriteSingle ==
    /\ Len(saved) < MaxSaves
    /\ \E data \in DeleteDocs :
          \E r \in {save_extracted_data(store, data, GoodTag, SingleId)} :
              /\ store' = r.store
              /\ saved' = Append(saved, Call(data, GoodTag, SingleId, r))
    /\ UNCHANGED <<aloneVars, base, coordVars>>

\* process_batch_files_async, lines 517 and 561: one call of a flush of batch
\* b; the coordinator of a batch goes on after its UploadLog row was deleted
WriteBatch ==
    /\ Len(saved) < MaxSaves
    /\ \E data \in DeleteDocs, b \in logs.open \cup logs.deleted :
          \E r \in {save_extracted_data(store, data, GoodTag, b)} :
              /\ store' = r.store
              /\ saved' = Append(saved, Call(data, GoodTag, b, r))
    /\ UNCHANGED <<aloneVars, base, coordVars>>

\* a delete that removes every result row
DeleteResults_All(results, batch_id) == {}

\* delete_batch, lines 1244-1249: the rows whose upload_batch_id is batch_id go
DeleteResults(results, batch_id) == {r \in results : r.upload_batch_id # batch_id}

\* _cleanup_orphans: subjects, semesters and students without a result row go
_cleanup_orphans(st) ==
    [st EXCEPT
        !.subjects = {s \in @ : \E r \in st.results : r.subject_id = s.id},
        !.semesters = {s \in @ : \E r \in st.results : r.semester_id = s.id},
        !.students = {s \in @ : \E r \in st.results : r.student_id = s.id}]

\* delete_batch(batch_id): 404 without an UploadLog row; else the results of
\* the batch and the row itself are deleted, orphans are cleaned, one commit
delete_batch ==
    /\ \E b \in logs.open :
          /\ store' = _cleanup_orphans([store EXCEPT !.results = DeleteResults(@, b)])
          /\ logs' = [open |-> logs.open \ {b}, deleted |-> logs.deleted \cup {b}]
    /\ UNCHANGED <<base, saved, coordVars, tasks, scan, pool>>

NextDelete ==
    \/ CreateLog
    \/ WriteSingle
    \/ WriteBatch
    \/ delete_batch

SpecDelete == Init /\ [][NextDelete]_vars

(***************************************************************************)
(* C29                                                                     *)
(***************************************************************************)
\* the calls made so far that returned and wrote the result row of key
WritersOf(key) ==
    {i \in DOMAIN saved :
        /\ ~saved[i].raised
        /\ saved[i].data.usn = key[1]
        /\ <<saved[i].data.semester, saved[i].data.exam_month, saved[i].data.exam_year>> = key[2]
        /\ \E k \in DOMAIN saved[i].data.subjects :
              NormalCode(saved[i].data.subjects[k].subject_code) = key[3]}

\* C29: every result row carries the id under which the most recent call that
\* wrote it was made, and a step of delete_batch(b) removes exactly the result
\* rows that carry b: a row that another batch or a single upload has written
\* since stays as it is.
C29_BatchIdIsLastWriter ==
    /\ [](\A r \in store.results :
             \E i \in WritersOf(ResultKey(store, r)) :
                 /\ \A j \in WritersOf(ResultKey(store, r)) : j <= i
                 /\ r.upload_batch_id = saved[i].upload_batch_id)
    /\ [][\A b \in BatchIds :
             (b \in logs.open /\ b \in logs'.deleted) =>
                 store'.results = {r \in store.results : r.upload_batch_id # b}]_vars

\* batch b wrote a row, another batch wrote the same row after it, and b was
\* deleted: the row is there under the id of the other batch
C29_Witness ==
    \E i, j \in DOMAIN saved :
        /\ i < j
        /\ ~saved[i].raised /\ ~saved[j].raised
        /\ saved[i].upload_batch_id \in logs.deleted
        /\ saved[j].upload_batch_id \in logs.open
        /\ \E r \in store.results :
              /\ {i, j} \subseteq WritersOf(ResultKey(store, r))
              /\ r.upload_batch_id = saved[j].upload_batch_id
=============================================================================
